---------------------------- MODULE Spec2Model ----------------------------
(***************************************************************************)
(* A model of the trade-accounting core of the portfolio dashboard:        *)
(*   parseCSVData, calculateFIFOPairs, calculatePositions and              *)
(*   calculatePortfolioSummary (src/src/utils/portfolio.ts),               *)
(*   updatePositionsWithMarketData (src/src/utils/marketData.ts) and the   *)
(*   render of TradeAnalytics (src/src/components/TradeAnalytics.tsx), as  *)
(*   driven by handleDataLoaded (src/unnamed/part_003, the App component). *)
(*                                                                         *)
(* Numbers.  A JavaScript number is modelled by an exact rational <<n, d>> *)
(* in lowest terms with d > 0; <<0, 0>> stands for a non-finite value      *)
(* (NaN, or the result of a division by zero).  The model therefore says   *)
(* nothing about IEEE-754 rounding.                                        *)
(*                                                                         *)
(* Strings.  A JavaScript string is modelled by the sequence of its        *)
(* characters, each a one-character TLA+ string, so that trim, replace,    *)
(* toUpperCase, split and parseFloat are computed, not assumed.            *)
(*                                                                         *)
(* Objects.  The Trade objects of an array are the elements of a sequence; *)
(* a reference to one of them is its index in that sequence.  The arrays   *)
(* sortedTrades, buyTrades, sellTrades and matchedBuys of                  *)
(* calculateFIFOPairs hold such references into the caller's array, as the *)
(* shallow copy [...trades] does.                                          *)
(***************************************************************************)
EXTENDS Integers, Sequences, FiniteSets, TLC

----------------------------------------------------------------------------
(* Bounds of the model *)

\* the longest CSV (number of data rows) that is explored
MaxRows == 3
\* Quantity cells are "1" .. MaxQty
MaxQty == 2
\* the longest CSV explored when the cells range over malformed values too
MaxParseRows == 2
\* the longest CSV explored when the answers of the price service vary
MaxMarketRows == 2
\* the longest CSV explored when only rows for one share are written
MaxDashboardRows == 4
MaxSilentRows == 2
MaxRefreshRows == 2

----------------------------------------------------------------------------
(* Numbers *)

NaN == <<0, 0>>
IsNaN(x) == x[2] = 0

Abs(n) == IF n < 0 THEN -n ELSE n

RECURSIVE GCD(_, _)
GCD(a, b) == IF b = 0 THEN a ELSE GCD(b, a % b)

\* the rational n/d in lowest terms
Rat(n, d) ==
    IF d = 0 THEN NaN
    ELSE LET s == IF d < 0 THEN -1 ELSE 1
             g == GCD(Abs(n), Abs(d))
         IN  <<(s * n) \div g, (s * d) \div g>>

Num(n) == <<n, 1>>
Zero == Num(0)

RAdd(x, y) == Rat(x[1] * y[2] + y[1] * x[2], x[2] * y[2])
RSub(x, y) == Rat(x[1] * y[2] - y[1] * x[2], x[2] * y[2])
RMul(x, y) == Rat(x[1] * y[1], x[2] * y[2])
RDiv(x, y) == Rat(x[1] * y[2], x[2] * y[1])
RAbs(x) == <<Abs(x[1]), x[2]>>
\* comparisons; as in JavaScript, every comparison with NaN is false
RLt(x, y) == ~IsNaN(x) /\ ~IsNaN(y) /\ x[1] * y[2] < y[1] * x[2]
RLe(x, y) == ~IsNaN(x) /\ ~IsNaN(y) /\ x[1] * y[2] <= y[1] * x[2]
RGt(x, y) == RLt(y, x)
RGe(x, y) == RLe(y, x)
\* Math.min
RMin(x, y) == IF IsNaN(x) \/ IsNaN(y) THEN NaN ELSE IF RLe(x, y) THEN x ELSE y

----------------------------------------------------------------------------
(* Strings *)

Digits == <<"0", "1", "2", "3", "4", "5", "6", "7", "8", "9">>
Lower == <<"a", "b", "c", "d", "e", "f", "g", "h", "i", "j", "k", "l", "m",
           "n", "o", "p", "q", "r", "s", "t", "u", "v", "w", "x", "y", "z">>
Upper == <<"A", "B", "C", "D", "E", "F", "G", "H", "I", "J", "K", "L", "M",
           "N", "O", "P", "Q", "R", "S", "T", "U", "V", "W", "X", "Y", "Z">>

IsDigit(c) == \E i \in 1..10 : Digits[i] = c
DigitVal(c) == (CHOOSE i \in 1..10 : Digits[i] = c) - 1
IsSpace(c) == c = " "

\* a field that the row object does not have (row.X is undefined)
Undefined == <<"undefined">>
\* JavaScript truthiness of a string-or-undefined value
Truthy(s) == s # Undefined /\ s # <<>>

RECURSIVE TrimStart(_)
TrimStart(s) == IF s # <<>> /\ IsSpace(Head(s)) THEN TrimStart(Tail(s)) ELSE s

RECURSIVE TrimEnd(_)
TrimEnd(s) ==
    IF s # <<>> /\ IsSpace(s[Len(s)]) THEN TrimEnd(SubSeq(s, 1, Len(s) - 1)) ELSE s

\* String.prototype.trim
Trim(s) == TrimEnd(TrimStart(s))

\* s.replace(/[chars]/g, '')
RemoveChars(s, chars) == SelectSeq(s, LAMBDA c : c \notin chars)

UpperChar(c) == IF \E i \in 1..26 : Lower[i] = c
                THEN Upper[CHOOSE i \in 1..26 : Lower[i] = c]
                ELSE c
\* String.prototype.toUpperCase
ToUpperCase(s) == [i \in 1..Len(s) |-> UpperChar(s[i])]

\* the longest prefix of s made of decimal digits
RECURSIVE TakeDigits(_)
TakeDigits(s) ==
    IF s # <<>> /\ IsDigit(Head(s)) THEN <<Head(s)>> \o TakeDigits(Tail(s)) ELSE <<>>

RECURSIVE DigitsValue(_)
DigitsValue(ds) ==
    IF ds = <<>> THEN 0
    ELSE 10 * DigitsValue(SubSeq(ds, 1, Len(ds) - 1)) + DigitVal(ds[Len(ds)])

RECURSIVE Pow10(_)
Pow10(k) == IF k = 0 THEN 1 ELSE 10 * Pow10(k - 1)

\* the number written by the integer digits ip and the fraction digits fp
ParseParts(ip, fp) ==
    IF ip = <<>> /\ fp = <<>> THEN NaN
    ELSE Rat(DigitsValue(ip) * Pow10(Len(fp)) + DigitsValue(fp), Pow10(Len(fp)))

\* the digits of the fraction, when rest begins with a decimal point
FractionDigits(rest) ==
    IF rest # <<>> /\ Head(rest) = "." THEN TakeDigits(Tail(rest)) ELSE <<>>

\* the number written at the start of u, whose leading digits are ip
ParseUnsigned(u, ip) == ParseParts(ip, FractionDigits(SubSeq(u, Len(ip) + 1, Len(u))))

\* the magnitude with its sign
Signed(neg, mag) == IF neg THEN <<-mag[1], mag[2]>> ELSE mag

\* parseFloat: leading white space, an optional sign, digits with an optional
\* fraction; whatever follows is ignored; NaN when there is no digit.
ParseFloat(s) ==
    LET t == TrimStart(s)
        u == IF t # <<>> /\ Head(t) \in {"-", "+"} THEN Tail(t) ELSE t
    IN  Signed(t # <<>> /\ Head(t) = "-", ParseUnsigned(u, TakeDigits(u)))

\* parseInt: leading white space, an optional sign, digits; -1 stands for NaN
\* (no date of the model has a negative field)
ParseInt(s) ==
    LET t  == TrimStart(s)
        ip == TakeDigits(t)
    IN  IF ip = <<>> THEN -1 ELSE DigitsValue(ip)

\* s.split(sep): the pieces of s between the occurrences of the character sep
RECURSIVE Split(_, _)
Split(s, sep) ==
    IF \E i \in 1..Len(s) : s[i] = sep
    THEN LET k == CHOOSE i \in 1..Len(s) : s[i] = sep /\ \A j \in 1..(i - 1) : s[j] # sep
         IN  <<SubSeq(s, 1, k - 1)>> \o Split(SubSeq(s, k + 1, Len(s)), sep)
    ELSE <<s>>

----------------------------------------------------------------------------
(* Dates *)

\* days since 1970-01-01 of the civil date y-m-d (proleptic Gregorian)
DaysFromCivil(y, m, d) ==
    LET yy  == IF m <= 2 THEN y - 1 ELSE y
        era == yy \div 400
        yoe == yy - era * 400
        mp  == IF m > 2 THEN m - 3 ELSE m + 9
        doy == (153 * mp + 2) \div 5 + d - 1
        doe == yoe * 365 + yoe \div 4 - yoe \div 100 + doy
    IN  era * 146097 + doe - 719468

\* parseDate(dateString).getTime(), in days: "M/D/YYYY" goes through
\* new Date(year, month - 1, day), anything else through parseISO
\* ("YYYY-MM-DD"); both give local midnight of that civil date.
parseDate(dateString) ==
    IF \E i \in 1..Len(dateString) : dateString[i] = "/"
    THEN LET f == Split(dateString, "/")
         IN  DaysFromCivil(ParseInt(f[3]), ParseInt(f[1]), ParseInt(f[2]))
    ELSE LET f == Split(dateString, "-")
         IN  DaysFromCivil(ParseInt(f[1]), ParseInt(f[2]), ParseInt(f[3]))

\* date-fns differenceInDays of two local midnights
differenceInDays(dateLeft, dateRight) == dateLeft - dateRight

----------------------------------------------------------------------------
(* parseCSVData: the rows of results.data *)

RECURSIVE IntToChars(_)
IntToChars(n) ==
    IF n < 10 THEN <<Digits[n + 1]>> ELSE IntToChars(n \div 10) \o <<Digits[(n % 10) + 1]>>

\* a slip: a dividend is booked as a purchase
TransCodeSideDividendAsBuy(transCode) ==
    CASE transCode = <<"B", "U", "Y">>      -> "BUY"
      [] transCode = <<"S", "E", "L", "L">> -> "SELL"
      [] transCode = <<"C", "D", "I", "V">> -> "BUY"
      [] transCode = <<"A", "F", "E", "E">> -> "FEE"
      [] transCode = <<"G", "O", "L", "D">> -> "FEE"
      [] transCode = <<"R", "T", "P">>      -> "DEPOSIT"
      [] transCode = <<"S", "O", "F", "F">> -> "CORP_ACTION"
      [] OTHER                              -> "NONE"

\* the side a transaction code maps to; "NONE" for the default branch
TransCodeSide(transCode) ==
    CASE transCode = <<"B", "U", "Y">>      -> "BUY"
      [] transCode = <<"S", "E", "L", "L">> -> "SELL"
      [] transCode = <<"C", "D", "I", "V">> -> "DIVIDEND"
      [] transCode = <<"A", "F", "E", "E">> -> "FEE"
      [] transCode = <<"G", "O", "L", "D">> -> "FEE"
      [] transCode = <<"R", "T", "P">>      -> "DEPOSIT"
      [] transCode = <<"S", "O", "F", "F">> -> "CORP_ACTION"
      [] OTHER                              -> "NONE"

\* const quantity = parseFloat((row.Quantity || '0').toString().replace(/"/g, '').trim())
RowQuantity(row) ==
    LET quantityStr == IF Truthy(row.Quantity) THEN row.Quantity ELSE <<"0">>
    IN  ParseFloat(Trim(RemoveChars(quantityStr, {"\""})))

\* let amount = 0; if (amountStr && amountStr.trim() !== '') amount = parseFloat(...)
RowAmount(row) ==
    LET amountStr == IF Truthy(row.Amount) THEN row.Amount ELSE <<"0">>
    IN  IF Trim(amountStr) # <<>>
        THEN ParseFloat(RemoveChars(amountStr, {"$", ",", "(", ")"}))
        ELSE Zero

\* calculatedPrice, for a row that passed the amount !== 0 && quantity > 0 test
RowPrice(side, amount, quantity) ==
    IF side = "BUY" THEN RDiv(RAbs(amount), quantity) ELSE RDiv(amount, quantity)

\* The body of results.data.forEach for one row: the trades it pushes
\* (none when the row is skipped, one otherwise).  index counts from 0.
ParseRow(row, index) ==
    IF ~Truthy(row.Instrument) \/ ~Truthy(row.TransCode) \/ Trim(row.Instrument) = <<>>
    THEN <<>>
    ELSE LET side     == TransCodeSide(ToUpperCase(row.TransCode))
             quantity == RowQuantity(row)
             amount   == RowAmount(row)
             price    == RowPrice(side, amount, quantity)
         IN  IF side \notin {"BUY", "SELL"} THEN <<>>
             ELSE IF IsNaN(quantity) \/ RLe(quantity, Zero) THEN <<>>
             ELSE IF amount = Zero THEN <<>>
             ELSE IF IsNaN(price) \/ RLe(price, Zero) THEN <<>>
             ELSE IF ~Truthy(row.ActivityDate) \/ Trim(row.ActivityDate) = <<>> THEN <<>>
             ELSE << [ id       |-> row.Instrument \o <<"-">> \o IntToChars(index),
                       symbol   |-> Trim(row.Instrument),
                       side     |-> side,
                       quantity |-> RAbs(quantity),
                       price    |-> price,
                       date     |-> row.ActivityDate,
                       fees     |-> Zero ] >>

\* a slip: the first row that is skipped ends the forEach
ParseRowsStopping(rows, n) ==
    LET bad == {k \in 1..n : ParseRow(rows[k], k - 1) = <<>>}
        m   == IF bad = {} THEN n ELSE (CHOOSE k \in bad : \A j \in bad : k <= j) - 1
    IN  [k \in 1..m |-> ParseRow(rows[k], k - 1)[1]]

\* the trades array after the forEach over results.data
RECURSIVE ParseRows(_, _)
ParseRows(rows, n) ==
    IF n = 0 THEN <<>> ELSE ParseRows(rows, n - 1) \o ParseRow(rows[n], n - 1)

\* a slip: one skipped row fails the whole file
ParseOutcomeStrict(rows) ==
    LET trades == ParseRows(rows, Len(rows))
    IN  IF Len(trades) = 0 \/ Len(trades) < Len(rows)
        THEN [ok |-> FALSE, error |-> "No valid trades found in CSV file", trades |-> <<>>]
        ELSE [ok |-> TRUE, error |-> "", trades |-> trades]

\* the outcome of the complete callback: the promise is rejected (with the
\* message of the thrown error) or resolved with the trades
ParseOutcome(rows) ==
    IF Len(rows) = 0
    THEN [ok |-> FALSE, error |-> "No data found in CSV file", trades |-> <<>>]
    ELSE LET trades == ParseRows(rows, Len(rows))
         IN  IF Len(trades) = 0
             THEN [ok |-> FALSE, error |-> "No valid trades found in CSV file",
                   trades |-> <<>>]
             ELSE [ok |-> TRUE, error |-> "", trades |-> trades]

----------------------------------------------------------------------------
(* The comparator of calculateFIFOPairs and calculatePositions *)

\* rank of a character in the collation order (symbols are upper-case words)
CharRank(c) == IF \E k \in 1..26 : Upper[k] = c
               THEN CHOOSE k \in 1..26 : Upper[k] = c
               ELSE 0

\* a.localeCompare(b): negative, zero or positive
RECURSIVE LocaleCompare(_, _)
LocaleCompare(a, b) ==
    IF a = <<>> /\ b = <<>> THEN 0
    ELSE IF a = <<>> THEN -1
    ELSE IF b = <<>> THEN 1
    ELSE IF CharRank(Head(a)) # CharRank(Head(b)) THEN CharRank(Head(a)) - CharRank(Head(b))
    ELSE LocaleCompare(Tail(a), Tail(b))

\* a slip: the tie-break puts the SELL of a day before its BUY
CompareTradesSellFirst(a, b) ==
    IF a.symbol # b.symbol THEN LocaleCompare(a.symbol, b.symbol)
    ELSE IF parseDate(a.date) # parseDate(b.date) THEN parseDate(a.date) - parseDate(b.date)
    ELSE IF a.side = "BUY" /\ b.side = "SELL" THEN 1
    ELSE IF a.side = "SELL" /\ b.side = "BUY" THEN -1
    ELSE 0

\* a slip: no tie-break on the side
CompareTradesNoSide(a, b) ==
    IF a.symbol # b.symbol THEN LocaleCompare(a.symbol, b.symbol)
    ELSE IF parseDate(a.date) # parseDate(b.date) THEN parseDate(a.date) - parseDate(b.date)
    ELSE 0

\* (a, b) => ... of the two sort calls: by symbol, then date, then BUY before SELL
CompareTrades(a, b) ==
    IF a.symbol # b.symbol THEN LocaleCompare(a.symbol, b.symbol)
    ELSE IF parseDate(a.date) # parseDate(b.date) THEN parseDate(a.date) - parseDate(b.date)
    ELSE IF a.side = "BUY" /\ b.side = "SELL" THEN -1
    ELSE IF a.side = "SELL" /\ b.side = "BUY" THEN 1
    ELSE 0

\* refs with the reference r put behind every reference that does not compare
\* greater than it (refs is sorted)
InsertRef(trades, refs, r) ==
    LET k == Cardinality({j \in 1..Len(refs) : CompareTrades(trades[refs[j]], trades[r]) <= 0})
    IN  SubSeq(refs, 1, k) \o <<r>> \o SubSeq(refs, k + 1, Len(refs))

\* [...trades].sort(compare): Array.prototype.sort is stable; the result holds
\* references to the objects of trades (the first n of them)
RECURSIVE SortedRefs(_, _)
SortedRefs(trades, n) ==
    IF n = 0 THEN <<>> ELSE InsertRef(trades, SortedRefs(trades, n - 1), n)

\* the references of refs whose object has the given side, in order
RefsOfSide(trades, refs, side) == SelectSeq(refs, LAMBDA r : trades[r].side = side)

----------------------------------------------------------------------------
(* The program state *)

VARIABLES
    pc,                 \* where handleDataLoaded stands
    run,                \* 1 for the first upload of the CSV text, 2 for the second
    csvRows,            \* results.data: the rows Papa.parse makes of csvText
    parseError,         \* the message parseCSVData rejected with, "" if none
    parsedTrades,       \* handleDataLoaded: parsedTrades
    tradesForFIFO,      \* handleDataLoaded: tradesForFIFO (the objects, by index)
    tradesForPositions, \* handleDataLoaded: tradesForPositions
    buyTrades,          \* calculateFIFOPairs: references into its argument
    sellTrades,         \* calculateFIFOPairs: references into its argument
    sellIndex,          \* calculateFIFOPairs: position of sellTrades.forEach (from 1)
    i,                  \* calculateFIFOPairs: the scan index of the for loop (from 1)
    remainingQuantity,  \* calculateFIFOPairs: remainingQuantity
    matchedBuys,        \* calculateFIFOPairs: matchedBuys, [trade: reference, quantity]
    pairs,              \* calculateFIFOPairs: pairs
    sortedTrades,       \* calculatePositions: sortedTrades, references into its argument
    tradeIndex,         \* calculatePositions: position of sortedTrades.forEach (from 1)
    positions,          \* calculatePositions: the Map, its values in insertion order
    calculatedTradePairs, \* handleDataLoaded: calculatedTradePairs
    calculatedPositions,  \* handleDataLoaded: calculatedPositions
    firstRun,           \* what the first upload computed (pairs and positions)
    feed,               \* what the price service answers for a symbol in this session
    priceCache,         \* marketData.ts: priceCache
    pending,            \* updatePositionsWithMarketData: the callbacks not yet resolved
    updatedPositions,   \* handleDataLoaded: updatedPositions
    calculatedSummary,  \* handleDataLoaded: calculatedSummary
    appTrades,          \* App: the state trades
    appPositions,       \* App: the state positions
    appTradePairs,      \* App: the state tradePairs
    appSummary,         \* App: the state summary
    isLoadingMarketData, \* App: the state isLoadingMarketData
    refreshCall         \* refreshMarketData: the call awaiting its lookups, if any

vars == <<pc, run, csvRows, parseError, parsedTrades, tradesForFIFO, tradesForPositions,
          buyTrades, sellTrades, sellIndex, i, remainingQuantity, matchedBuys, pairs,
          sortedTrades, tradeIndex, positions, calculatedTradePairs, calculatedPositions,
          firstRun, feed, priceCache, pending, updatedPositions, calculatedSummary,
          appTrades, appPositions, appTradePairs, appSummary, isLoadingMarketData,
          refreshCall>>

marketVars == <<feed, priceCache, pending, updatedPositions, calculatedSummary>>
appVars == <<appTrades, appPositions, appTradePairs, appSummary>>
refreshVars == <<isLoadingMarketData, refreshCall>>

fifoVars == <<buyTrades, sellTrades, sellIndex, i, remainingQuantity, matchedBuys, pairs>>
posVars == <<sortedTrades, tradeIndex, positions>>

----------------------------------------------------------------------------
(* The CSV texts that are explored *)

Instruments == {<<"A">>, <<"G", "T", "I">>}
Dates == {<<"1", "/", "3", "1", "/", "2", "0", "2", "4">>,
          <<"2", "/", "1", "/", "2", "0", "2", "4">>}
Amounts == {6}
BuyCode == <<"B", "u", "y">>
SellCode == <<"S", "e", "l", "l">>

\* the Amount cell of the brokerage export: "$6.00", and "($6.00)" for cash paid
Money(n) == <<"$">> \o IntToChars(n) \o <<".", "0", "0">>
PaidMoney(n) == <<"(">> \o Money(n) \o <<")">>

Row(instrument, transCode, quantity, amount, date) ==
    [ Instrument   |-> instrument,
      TransCode    |-> transCode,
      Quantity     |-> quantity,
      Amount       |-> amount,
      ActivityDate |-> date ]

\* rows as the export writes them
ExportRows ==
    { Row(s, c, IntToChars(q), IF c = BuyCode THEN PaidMoney(a) ELSE Money(a), d) :
        s \in Instruments, c \in {BuyCode, SellCode}, q \in 1..MaxQty, a \in Amounts,
        d \in Dates }

\* cells that a file may hold instead: missing, blank, padded, quoted,
\* other transaction codes, numbers that are zero, negative or no numbers
InstrumentCells == {Undefined, <<>>, <<" ">>, <<" ", "A", " ">>}
TransCodeCells ==
    {Undefined, <<>>, <<"C", "D", "I", "V">>, <<"A", "F", "E", "E">>, <<"G", "O", "L", "D">>,
     <<"R", "T", "P">>, <<"S", "O", "F", "F">>, <<"X", "Y", "Z">>, <<"b", "u", "y">>,
     <<"S", "E", "L", "L">>}
QuantityCells ==
    {Undefined, <<>>, <<"0">>, <<"-", "1">>, <<"a", "b", "c">>, <<"\"", "2", "\"">>,
     <<" ", "2", " ">>, <<"0", ".", "5">>}
AmountCells ==
    {Undefined, <<>>, <<" ">>, <<"0">>, <<"$", "0", ".", "0", "0">>, <<"a", "b", "c">>,
     <<"-", "6">>, <<"(", "6", ")">>, <<"$", "1", ",", "0", "0", "0", ".", "0", "0">>, <<"6">>}
DateCells == {Undefined, <<>>, <<" ">>, <<"2", "0", "2", "4", "-", "0", "1", "-", "3", "1">>}

\* a row of the export with one cell replaced
RowVariants(row) ==
    {[row EXCEPT !.Instrument = c] : c \in InstrumentCells}
        \cup {[row EXCEPT !.TransCode = c] : c \in TransCodeCells}
        \cup {[row EXCEPT !.Quantity = c] : c \in QuantityCells}
        \cup {[row EXCEPT !.Amount = c] : c \in AmountCells}
        \cup {[row EXCEPT !.ActivityDate = c] : c \in DateCells}

AnyRows ==
    LET base == {r \in ExportRows : r.Instrument = <<"A">> /\ r.Quantity = <<"1">>
                                     /\ r.ActivityDate[1] = "2"}
    IN  base \cup UNION {RowVariants(r) : r \in base}

SeqsUpTo(S, n) == UNION { [1..k -> S] : k \in 0..n }

----------------------------------------------------------------------------
(* calculateFIFOPairs *)

\* if (buyTrade.symbol === sellTrade.symbol && buyTrade.quantity > 0)
LotMatches(buyTrade, sellTrade) ==
    buyTrade.symbol = sellTrade.symbol /\ RGt(buyTrade.quantity, Zero)

\* a slip: the lot gives whatever the sell still needs
MatchQuantityWholeSell(remaining, buyQuantity) == remaining

\* a slip: the whole lot is taken, needed or not
MatchQuantityWholeLot(remaining, buyQuantity) == buyQuantity

\* const matchQuantity = Math.min(remainingQuantity, buyTrade.quantity)
MatchQuantity(remaining, buyQuantity) == RMin(remaining, buyQuantity)

\* a slip: a pair for every sell that found a lot, covered or not
CompleteMatchAnyContribution(remaining, matched) == Len(matched) > 0

\* if (remainingQuantity === 0 && matchedBuys.length > 0)
CompleteMatch(remaining, matched) == remaining = Zero /\ Len(matched) > 0

\* matchedBuys.reduce((sum, match) => sum + match.trade.price * match.quantity, 0)
RECURSIVE TotalBuyValue(_, _)
TotalBuyValue(trades, matched) ==
    IF matched = <<>> THEN Zero
    ELSE RAdd(TotalBuyValue(trades, SubSeq(matched, 1, Len(matched) - 1)),
              RMul(trades[matched[Len(matched)].trade].price, matched[Len(matched)].quantity))

\* matchedBuys.reduce((sum, match) => sum + match.quantity, 0)
RECURSIVE TotalBuyQuantity(_)
TotalBuyQuantity(matched) ==
    IF matched = <<>> THEN Zero
    ELSE RAdd(TotalBuyQuantity(SubSeq(matched, 1, Len(matched) - 1)),
              matched[Len(matched)].quantity)

\* a slip: the buy side is priced at the first lot's price
MakePairFirstLotPrice(trades, matched, sellTrade) ==
    LET avgBuyPrice == trades[matched[1].trade].price
        realizedPnL == RMul(RSub(sellTrade.price, avgBuyPrice), sellTrade.quantity)
    IN  [ buyTrade  |-> [trades[matched[1].trade] EXCEPT
                            !.quantity = sellTrade.quantity, !.price = avgBuyPrice],
          sellTrade |-> sellTrade,
          realizedPnL |-> realizedPnL,
          realizedPnLPercent |->
              IF RGt(avgBuyPrice, Zero)
              THEN RMul(RDiv(realizedPnL, RMul(avgBuyPrice, sellTrade.quantity)), Num(100))
              ELSE Zero,
          holdingPeriod |->
              differenceInDays(parseDate(sellTrade.date),
                               parseDate(trades[matched[1].trade].date)) ]

\* a slip: the buy side and the holding period come from the last lot consumed
MakePairLastLotDate(trades, matched, sellTrade) ==
    LET avgBuyPrice == RDiv(TotalBuyValue(trades, matched), TotalBuyQuantity(matched))
        realizedPnL == RMul(RSub(sellTrade.price, avgBuyPrice), sellTrade.quantity)
    IN  [ buyTrade  |-> [trades[matched[Len(matched)].trade] EXCEPT
                            !.quantity = sellTrade.quantity, !.price = avgBuyPrice],
          sellTrade |-> sellTrade,
          realizedPnL |-> realizedPnL,
          realizedPnLPercent |->
              IF RGt(avgBuyPrice, Zero)
              THEN RMul(RDiv(realizedPnL, RMul(avgBuyPrice, sellTrade.quantity)), Num(100))
              ELSE Zero,
          holdingPeriod |->
              differenceInDays(parseDate(sellTrade.date),
                               parseDate(trades[matched[Len(matched)].trade].date)) ]

\* the TradePair pushed for sellTrade; sellTrade is held by reference in the
\* code, and no SELL object is written after it is created, so it is kept
\* here by value
MakePair(trades, matched, sellTrade) ==
    LET avgBuyPrice == RDiv(TotalBuyValue(trades, matched), TotalBuyQuantity(matched))
        realizedPnL == RMul(RSub(sellTrade.price, avgBuyPrice), sellTrade.quantity)
    IN  [ buyTrade  |-> [trades[matched[1].trade] EXCEPT
                            !.quantity = sellTrade.quantity, !.price = avgBuyPrice],
          sellTrade |-> sellTrade,
          realizedPnL |-> realizedPnL,
          realizedPnLPercent |->
              IF RGt(avgBuyPrice, Zero)
              THEN RMul(RDiv(realizedPnL, RMul(avgBuyPrice, sellTrade.quantity)), Num(100))
              ELSE Zero,
          holdingPeriod |->
              differenceInDays(parseDate(sellTrade.date),
                               parseDate(trades[matched[1].trade].date)) ]

----------------------------------------------------------------------------
(* calculatePositions *)

NewPosition(symbol) ==
    [ symbol |-> symbol, quantity |-> Zero, avgBuyPrice |-> Zero, totalCost |-> Zero,
      currentPrice |-> Zero, marketValue |-> Zero, unrealizedPnL |-> Zero,
      unrealizedPnLPercent |-> Zero ]

HasSymbol(ps, symbol) == \E k \in 1..Len(ps) : ps[k].symbol = symbol
PositionIndex(ps, symbol) == CHOOSE k \in 1..Len(ps) : ps[k].symbol = symbol

\* if (!positions.has(symbol)) positions.set(symbol, {...})
WithPosition(ps, symbol) ==
    IF HasSymbol(ps, symbol) THEN ps ELSE Append(ps, NewPosition(symbol))

\* a slip: the average of the two prices, not weighted by quantity
ApplyBuySimpleAverage(position, trade) ==
    [position EXCEPT
        !.avgBuyPrice = IF RGt(position.quantity, Zero)
                        THEN RDiv(RAdd(position.avgBuyPrice, trade.price), Num(2))
                        ELSE trade.price,
        !.totalCost = RAdd(position.totalCost, RMul(trade.price, trade.quantity)),
        !.quantity = RAdd(position.quantity, trade.quantity)]

\* a slip: the cost of the purchase replaces the cost so far
ApplyBuyReplacingCost(position, trade) ==
    LET newTotalCost == RMul(trade.price, trade.quantity)
        newQuantity  == RAdd(position.quantity, trade.quantity)
    IN  [position EXCEPT
            !.avgBuyPrice = IF RGt(newQuantity, Zero) THEN RDiv(newTotalCost, newQuantity)
                            ELSE Zero,
            !.totalCost = newTotalCost,
            !.quantity = newQuantity]

\* the BUY branch
ApplyBuy(position, trade) ==
    LET newTotalCost == RAdd(position.totalCost, RMul(trade.price, trade.quantity))
        newQuantity  == RAdd(position.quantity, trade.quantity)
    IN  [position EXCEPT
            !.avgBuyPrice = IF RGt(newQuantity, Zero) THEN RDiv(newTotalCost, newQuantity)
                            ELSE Zero,
            !.totalCost = newTotalCost,
            !.quantity = newQuantity]

\* a slip: the whole sell quantity is taken, owned or not
ApplySellUnclamped(position, trade) ==
    LET sellQuantity == trade.quantity
        soldCost     == RMul(position.avgBuyPrice, sellQuantity)
        quantity     == RSub(position.quantity, sellQuantity)
        totalCost    == RSub(position.totalCost, soldCost)
    IN  IF RGt(quantity, Zero)
        THEN [position EXCEPT !.quantity = quantity, !.totalCost = totalCost,
                              !.avgBuyPrice = RDiv(totalCost, quantity)]
        ELSE [position EXCEPT !.quantity = quantity, !.totalCost = Zero,
                              !.avgBuyPrice = Zero]

\* a slip: a fully sold position keeps its average price
ApplySellKeepingBasis(position, trade) ==
    LET sellQuantity == RMin(trade.quantity, position.quantity)
        soldCost     == RMul(position.avgBuyPrice, sellQuantity)
        quantity     == RSub(position.quantity, sellQuantity)
        totalCost    == RSub(position.totalCost, soldCost)
    IN  IF RGt(sellQuantity, Zero)
        THEN [position EXCEPT !.quantity = quantity, !.totalCost = totalCost]
        ELSE position

\* a slip: a sale takes the whole cost basis, whatever is left
ApplySellWholeCost(position, trade) ==
    LET sellQuantity == RMin(trade.quantity, position.quantity)
        soldCost     == position.totalCost
        quantity     == RSub(position.quantity, sellQuantity)
        totalCost    == RSub(position.totalCost, soldCost)
    IN  IF RGt(sellQuantity, Zero)
        THEN IF RGt(quantity, Zero)
             THEN [position EXCEPT !.quantity = quantity, !.totalCost = totalCost,
                                   !.avgBuyPrice = RDiv(totalCost, quantity)]
             ELSE [position EXCEPT !.quantity = quantity, !.totalCost = Zero,
                                   !.avgBuyPrice = Zero]
        ELSE position

\* the SELL branch
ApplySell(position, trade) ==
    LET sellQuantity == RMin(trade.quantity, position.quantity)
        soldCost     == RMul(position.avgBuyPrice, sellQuantity)
        quantity     == RSub(position.quantity, sellQuantity)
        totalCost    == RSub(position.totalCost, soldCost)
    IN  IF RGt(sellQuantity, Zero)
        THEN IF RGt(quantity, Zero)
             THEN [position EXCEPT !.quantity = quantity, !.totalCost = totalCost,
                                   !.avgBuyPrice = RDiv(totalCost, quantity)]
             ELSE [position EXCEPT !.quantity = quantity, !.totalCost = Zero,
                                   !.avgBuyPrice = Zero]
        ELSE position

\* a slip: the Map's values are returned unfiltered
FinalPositionsUnfiltered(ps) == ps

\* Array.from(positions.values()).filter(pos => pos.quantity > 0)
FinalPositions(ps) == SelectSeq(ps, LAMBDA pos : RGt(pos.quantity, Zero))

----------------------------------------------------------------------------
(* marketData.ts: the price collaborator *)

\* a value of type number | null
NullPrice == [null |-> TRUE, price |-> Zero]
Price(x) == [null |-> FALSE, price |-> x]
\* JavaScript truthiness of a number: not 0, not NaN
NumTruthy(x) == ~IsNaN(x) /\ x # Zero
\* if (currentPrice), if (!currentPrice)
PriceTruthy(p) == ~p.null /\ NumTruthy(p.price)

\* what the price service can answer to one request: the fetch is rejected,
\* the response is not OK, its body is no JSON, the JSON has no quote, or it
\* has a quote with the text of a price
Response(kind, price) == [kind |-> kind, price |-> price]
Unreachable == Response("reject", <<>>)
Responses ==
    { Unreachable, Response("notOk", <<>>), Response("badJson", <<>>),
      Response("noQuote", <<>>),
      Response("quote", <<"3", ".", "0", "0">>),
      Response("quote", <<"0", ".", "0", "0">>),
      Response("quote", <<"a", "b", "c">>) }

\* the service never answers: the promise of fetch stays pending
Silent == Response("silent", <<>>)

\* an entry of priceCache; fresh: now - timestamp < CACHE_DURATION
NoEntry == [has |-> FALSE, price |-> Zero, fresh |-> FALSE]
Entry(price) == [has |-> TRUE, price |-> price, fresh |-> TRUE]
\* five minutes and more have passed: every entry is past CACHE_DURATION
Expired(cache) == [s \in DOMAIN cache |-> [cache[s] EXCEPT !.fresh = FALSE]]

\* a slip: no try/catch around the fetch, the error leaves getCurrentPrice
getCurrentPriceUncaught(cache, symbol, response) ==
    IF cache[symbol].has /\ cache[symbol].fresh
    THEN [price |-> Price(cache[symbol].price), cache |-> cache, threw |-> FALSE]
    ELSE IF response.kind \in {"reject", "notOk", "badJson"}
    THEN [price |-> NullPrice, cache |-> cache, threw |-> TRUE]
    ELSE IF response.kind = "quote" /\ Truthy(response.price)
    THEN LET price == ParseFloat(response.price)
         IN  [price |-> Price(price), cache |-> [cache EXCEPT ![symbol] = Entry(price)],
              threw |-> FALSE]
    ELSE [price |-> NullPrice, cache |-> cache, threw |-> FALSE]

\* getCurrentPrice(symbol) when the service answers response: the price it
\* resolves with, the cache it leaves, and whether it rejected (it never does:
\* every error of the try block is caught and turned into null)
getCurrentPrice(cache, symbol, response) ==
    IF cache[symbol].has /\ cache[symbol].fresh
    THEN [price |-> Price(cache[symbol].price), cache |-> cache, threw |-> FALSE]
    ELSE IF response.kind \in {"reject", "notOk", "badJson"}
    THEN [price |-> NullPrice, cache |-> cache, threw |-> FALSE]
    ELSE IF response.kind = "quote" /\ Truthy(response.price)
    THEN LET price == ParseFloat(response.price)
         IN  [price |-> Price(price), cache |-> [cache EXCEPT ![symbol] = Entry(price)],
              threw |-> FALSE]
    ELSE [price |-> NullPrice, cache |-> cache, threw |-> FALSE]

\* the promise of getCurrentPrice(symbol) settles: the cache answers at once,
\* or the awaited fetch settles (nothing in getCurrentPrice bounds the wait)
Settles(cache, symbol, response) ==
    (cache[symbol].has /\ cache[symbol].fresh) \/ response.kind # "silent"

\* const mockPrices: Record<string, number>
mockPrices ==
    << [symbol |-> <<"A", "I", "R", "E">>, price |-> Rat(45, 100)],
       [symbol |-> <<"R", "K", "T">>,      price |-> Rat(1580, 100)],
       [symbol |-> <<"D", "N", "U", "T">>, price |-> Rat(485, 100)],
       [symbol |-> <<"D", "F", "L", "I">>, price |-> Rat(52, 100)],
       [symbol |-> <<"N", "V", "T", "S">>, price |-> Rat(895, 100)],
       [symbol |-> <<"O", "P", "E", "N">>, price |-> Rat(275, 100)],
       [symbol |-> <<"G", "T", "I">>,      price |-> Rat(12, 100)],
       [symbol |-> <<"X", "A", "G", "E">>, price |-> Rat(645, 100)],
       [symbol |-> <<"S", "Q", "F", "T">>, price |-> Rat(1750, 100)],
       [symbol |-> <<"P", "L", "U", "G">>, price |-> Rat(165, 100)],
       [symbol |-> <<"B", "B", "A", "I">>, price |-> Rat(720, 100)],
       [symbol |-> <<"M", "R", "S", "N">>, price |-> Rat(38, 100)],
       [symbol |-> <<"S", "K", "Y", "E">>, price |-> Rat(325, 100)],
       [symbol |-> <<"A", "R", "T", "L">>, price |-> Rat(210, 100)] >>

HasMockPrice(symbol) == \E k \in 1..Len(mockPrices) : mockPrices[k].symbol = symbol
MockPriceOf(symbol) ==
    mockPrices[CHOOSE k \in 1..Len(mockPrices) : mockPrices[k].symbol = symbol].price

\* getMockPrice(symbol): the price it resolves with and the cache it leaves
getMockPrice(cache, symbol) ==
    IF HasMockPrice(symbol) /\ NumTruthy(MockPriceOf(symbol))
    THEN [price |-> Price(MockPriceOf(symbol)),
          cache |-> [cache EXCEPT ![symbol] = Entry(MockPriceOf(symbol))]]
    ELSE [price |-> NullPrice, cache |-> cache]

\* the position a callback of positions.map returns for currentPrice
Valued(position, currentPrice) ==
    IF PriceTruthy(currentPrice)
    THEN LET marketValue   == RMul(position.quantity, currentPrice.price)
             unrealizedPnL == RSub(marketValue, position.totalCost)
         IN  [position EXCEPT
                 !.currentPrice = currentPrice.price,
                 !.marketValue = marketValue,
                 !.unrealizedPnL = unrealizedPnL,
                 !.unrealizedPnLPercent =
                     RMul(RDiv(unrealizedPnL, position.totalCost), Num(100))]
    ELSE [position EXCEPT
             !.currentPrice = Zero, !.marketValue = Zero, !.unrealizedPnL = Zero,
             !.unrealizedPnLPercent = Zero]

\* one callback of positions.map in updatePositionsWithMarketData, from its
\* call to its return: the live price first, the mock price if that is falsy
MarketCallback(cache, position, response) ==
    LET live == getCurrentPrice(cache, position.symbol, response)
        mock == getMockPrice(live.cache, position.symbol)
    IN  IF PriceTruthy(live.price)
        THEN [position |-> Valued(position, live.price), cache |-> live.cache,
              threw |-> live.threw]
        ELSE [position |-> Valued(position, mock.price), cache |-> mock.cache,
              threw |-> live.threw]

----------------------------------------------------------------------------
(* calculatePortfolioSummary *)

\* x || 0
OrZero(x) == IF NumTruthy(x) THEN x ELSE Zero

\* xs.reduce((sum, x) => sum + x, 0)
RECURSIVE Reduce(_)
Reduce(xs) ==
    IF xs = <<>> THEN Zero ELSE RAdd(Reduce(SubSeq(xs, 1, Len(xs) - 1)), xs[Len(xs)])

\* totalCost > 0 ? (x / totalCost) * 100 : 0
PercentOf(x, totalCost) ==
    IF RGt(totalCost, Zero) THEN RMul(RDiv(x, totalCost), Num(100)) ELSE Zero

\* the summary state before any file is loaded, and after a reset
Null == [null |-> TRUE]

\* a slip: only the trades that ended in a pair are counted
calculatePortfolioSummaryMatchedOnly(ps, tradePairs, allTrades) ==
    LET totalCost          == Reduce([k \in 1..Len(ps) |-> ps[k].totalCost])
        totalMarketValue   == Reduce([k \in 1..Len(ps) |-> OrZero(ps[k].marketValue)])
        totalUnrealizedPnL == Reduce([k \in 1..Len(ps) |-> OrZero(ps[k].unrealizedPnL)])
        totalRealizedPnL   ==
            Reduce([k \in 1..Len(tradePairs) |-> tradePairs[k].realizedPnL])
        totalPnL           == RAdd(totalRealizedPnL, totalUnrealizedPnL)
    IN  [ totalCost |-> totalCost,
          totalMarketValue |-> totalMarketValue,
          totalUnrealizedPnL |-> totalUnrealizedPnL,
          totalUnrealizedPnLPercent |-> PercentOf(totalUnrealizedPnL, totalCost),
          totalRealizedPnL |-> totalRealizedPnL,
          totalRealizedPnLPercent |-> PercentOf(totalRealizedPnL, totalCost),
          totalPnL |-> totalPnL,
          totalPnLPercent |-> PercentOf(totalPnL, totalCost),
          positionCount |-> Len(ps),
          tradeCount |-> Len(tradePairs) + Len(tradePairs) ]

calculatePortfolioSummary(ps, tradePairs, allTrades) ==
    LET totalCost          == Reduce([k \in 1..Len(ps) |-> ps[k].totalCost])
        totalMarketValue   == Reduce([k \in 1..Len(ps) |-> OrZero(ps[k].marketValue)])
        totalUnrealizedPnL == Reduce([k \in 1..Len(ps) |-> OrZero(ps[k].unrealizedPnL)])
        totalRealizedPnL   ==
            Reduce([k \in 1..Len(tradePairs) |-> tradePairs[k].realizedPnL])
        totalPnL           == RAdd(totalRealizedPnL, totalUnrealizedPnL)
    IN  [ totalCost |-> totalCost,
          totalMarketValue |-> totalMarketValue,
          totalUnrealizedPnL |-> totalUnrealizedPnL,
          totalUnrealizedPnLPercent |-> PercentOf(totalUnrealizedPnL, totalCost),
          totalRealizedPnL |-> totalRealizedPnL,
          totalRealizedPnLPercent |-> PercentOf(totalRealizedPnL, totalCost),
          totalPnL |-> totalPnL,
          totalPnLPercent |-> PercentOf(totalPnL, totalCost),
          positionCount |-> Len(ps),
          tradeCount |-> Len(allTrades) ]

----------------------------------------------------------------------------
(* TradeAnalytics: what its render does to the arrays it is given *)

\* new Date(dateString).getTime(), in days.  For "M/D/YYYY" it is the local
\* midnight parseDate gives; for "YYYY-MM-DD" it is UTC midnight, less than a
\* day away, which does not change the order of two different days.
NewDate(dateString) == parseDate(dateString)

\* ps with the pair put behind every pair whose sell is not dated later
InsertPair(ps, pair) ==
    LET k == Cardinality({j \in 1..Len(ps) :
                 NewDate(ps[j].sellTrade.date) - NewDate(pair.sellTrade.date) <= 0})
    IN  SubSeq(ps, 1, k) \o <<pair>> \o SubSeq(ps, k + 1, Len(ps))

\* tradePairs.sort((a, b) => new Date(a.sellTrade.date).getTime() -
\* new Date(b.sellTrade.date).getTime()): Array.prototype.sort sorts the
\* array it is called on, here the tradePairs prop itself, and is stable
RECURSIVE SortBySellDate(_, _)
SortBySellDate(ps, n) ==
    IF n = 0 THEN <<>> ELSE InsertPair(SortBySellDate(ps, n - 1), ps[n])

----------------------------------------------------------------------------
(* handleDataLoaded, step by step *)

\* no call of refreshMarketData is awaiting its lookups
NoRefresh ==
    [active |-> FALSE, positions |-> <<>>, tradePairs |-> <<>>, trades |-> <<>>,
     pending |-> {}, updatedPositions |-> <<>>]

Blank ==
    /\ pc = "parse"
    /\ run = 1
    /\ parseError = ""
    /\ parsedTrades = <<>>
    /\ tradesForFIFO = <<>>
    /\ tradesForPositions = <<>>
    /\ buyTrades = <<>>
    /\ sellTrades = <<>>
    /\ sellIndex = 1
    /\ i = 1
    /\ remainingQuantity = Zero
    /\ matchedBuys = <<>>
    /\ pairs = <<>>
    /\ sortedTrades = <<>>
    /\ tradeIndex = 1
    /\ positions = <<>>
    /\ calculatedTradePairs = <<>>
    /\ calculatedPositions = <<>>
    /\ firstRun = [pairs |-> <<>>, positions |-> <<>>]
    /\ priceCache = [s \in Instruments |-> NoEntry]
    /\ pending = {}
    /\ updatedPositions = <<>>
    /\ calculatedSummary = Null
    /\ appTrades = <<>>
    /\ appPositions = <<>>
    /\ appTradePairs = <<>>
    /\ appSummary = Null
    /\ isLoadingMarketData = FALSE
    /\ refreshCall = NoRefresh

\* files of the export; the price service cannot be reached (every request
\* fails), so that every price is a fallback price or none
Init ==
    /\ csvRows \in SeqsUpTo(ExportRows, MaxRows)
    /\ feed = [s \in Instruments |-> Unreachable]
    /\ Blank

\* const parsedTrades = await parseCSVData(csvText); a rejection goes to the
\* catch block, which reports it and ends the handler
parseCSVData ==
    /\ pc = "parse"
    /\ LET out == ParseOutcome(csvRows)
       IN  IF out.ok
           THEN /\ parsedTrades' = out.trades
                /\ parseError' = ""
                /\ pc' = "copy"
           ELSE /\ parseError' = out.error
                /\ pc' = "rejected"
                /\ UNCHANGED parsedTrades
    /\ UNCHANGED <<run, csvRows, tradesForFIFO, tradesForPositions, fifoVars, posVars,
                   calculatedTradePairs, calculatedPositions, firstRun, marketVars, appVars, refreshVars>>

\* parsedTrades.map(trade => ({ ...trade })): new objects with the same fields
CopyTrades(trades) == [k \in 1..Len(trades) |-> trades[k]]

copyTrades ==
    /\ pc = "copy"
    /\ tradesForFIFO' = CopyTrades(parsedTrades)
    /\ tradesForPositions' = CopyTrades(parsedTrades)
    /\ pc' = "fifo_begin"
    /\ UNCHANGED <<run, csvRows, parseError, parsedTrades, fifoVars, posVars,
                   calculatedTradePairs, calculatedPositions, firstRun, marketVars, appVars, refreshVars>>

\* calculateFIFOPairs(tradesForFIFO), up to the partition into buys and sells
fifoBegin ==
    /\ pc = "fifo_begin"
    /\ LET sorted == SortedRefs(tradesForFIFO, Len(tradesForFIFO))
       IN  /\ buyTrades' = RefsOfSide(tradesForFIFO, sorted, "BUY")
           /\ sellTrades' = SelectSeq(sorted, LAMBDA r : tradesForFIFO[r].side # "BUY")
    /\ pairs' = <<>>
    /\ sellIndex' = 1
    /\ pc' = "fifo_sell"
    /\ UNCHANGED <<run, csvRows, parseError, parsedTrades, tradesForFIFO,
                   tradesForPositions, i, remainingQuantity, matchedBuys, posVars,
                   calculatedTradePairs, calculatedPositions, firstRun, marketVars, appVars, refreshVars>>

\* sellTrades.forEach: entering the callback for the next sell
fifoSell ==
    /\ pc = "fifo_sell"
    /\ sellIndex <= Len(sellTrades)
    /\ remainingQuantity' = tradesForFIFO[sellTrades[sellIndex]].quantity
    /\ matchedBuys' = <<>>
    /\ i' = 1
    /\ pc' = "fifo_scan"
    /\ UNCHANGED <<run, csvRows, parseError, parsedTrades, tradesForFIFO,
                   tradesForPositions, buyTrades, sellTrades, sellIndex, pairs, posVars,
                   calculatedTradePairs, calculatedPositions, firstRun, marketVars, appVars, refreshVars>>

ScanContinues == i <= Len(buyTrades) /\ RGt(remainingQuantity, Zero)

\* a slip: the for loop runs from the newest lot to the oldest
fifoScanNewestFirst ==
    /\ pc = "fifo_scan"
    /\ ScanContinues
    /\ LET ref       == buyTrades[Len(buyTrades) - i + 1]
           buyTrade  == tradesForFIFO[ref]
           sellTrade == tradesForFIFO[sellTrades[sellIndex]]
           matchQuantity == MatchQuantity(remainingQuantity, buyTrade.quantity)
       IN  IF LotMatches(buyTrade, sellTrade)
           THEN /\ matchedBuys' = Append(matchedBuys,
                                         [trade |-> ref, quantity |-> matchQuantity])
                /\ remainingQuantity' = RSub(remainingQuantity, matchQuantity)
                /\ tradesForFIFO' = [tradesForFIFO EXCEPT
                                        ![ref].quantity = RSub(@, matchQuantity)]
           ELSE UNCHANGED <<matchedBuys, remainingQuantity, tradesForFIFO>>
    /\ i' = i + 1
    /\ UNCHANGED <<pc, run, csvRows, parseError, parsedTrades, tradesForPositions,
                   buyTrades, sellTrades, sellIndex, pairs, posVars,
                   calculatedTradePairs, calculatedPositions, firstRun, marketVars, appVars, refreshVars>>

\* one iteration of the for loop over buyTrades
fifoScan ==
    /\ pc = "fifo_scan"
    /\ ScanContinues
    /\ LET ref       == buyTrades[i]
           buyTrade  == tradesForFIFO[ref]
           sellTrade == tradesForFIFO[sellTrades[sellIndex]]
           matchQuantity == MatchQuantity(remainingQuantity, buyTrade.quantity)
       IN  IF LotMatches(buyTrade, sellTrade)
           THEN /\ matchedBuys' = Append(matchedBuys,
                                         [trade |-> ref, quantity |-> matchQuantity])
                /\ remainingQuantity' = RSub(remainingQuantity, matchQuantity)
                /\ tradesForFIFO' = [tradesForFIFO EXCEPT
                                        ![ref].quantity = RSub(@, matchQuantity)]
           ELSE UNCHANGED <<matchedBuys, remainingQuantity, tradesForFIFO>>
    /\ i' = i + 1
    /\ UNCHANGED <<pc, run, csvRows, parseError, parsedTrades, tradesForPositions,
                   buyTrades, sellTrades, sellIndex, pairs, posVars,
                   calculatedTradePairs, calculatedPositions, firstRun, marketVars, appVars, refreshVars>>

\* a slip: the pair is put in front of the pairs found so far
fifoEmitPrepending ==
    /\ pc = "fifo_scan"
    /\ ~ScanContinues
    /\ pairs' = IF CompleteMatch(remainingQuantity, matchedBuys)
                THEN <<MakePair(tradesForFIFO, matchedBuys,
                                tradesForFIFO[sellTrades[sellIndex]])>> \o pairs
                ELSE pairs
    /\ sellIndex' = sellIndex + 1
    /\ pc' = "fifo_sell"
    /\ UNCHANGED <<run, csvRows, parseError, parsedTrades, tradesForFIFO,
                   tradesForPositions, buyTrades, sellTrades, i, remainingQuantity,
                   matchedBuys, posVars, calculatedTradePairs, calculatedPositions,
                   firstRun, marketVars, appVars, refreshVars>>

\* a slip: an incomplete match gives back what it took from the lots
fifoEmitRestoringLots ==
    /\ pc = "fifo_scan"
    /\ ~ScanContinues
    /\ pairs' = IF CompleteMatch(remainingQuantity, matchedBuys)
                THEN Append(pairs, MakePair(tradesForFIFO, matchedBuys,
                                            tradesForFIFO[sellTrades[sellIndex]]))
                ELSE pairs
    /\ tradesForFIFO' =
          IF CompleteMatch(remainingQuantity, matchedBuys) THEN tradesForFIFO
          ELSE [r \in DOMAIN tradesForFIFO |->
                   IF \E m \in 1..Len(matchedBuys) : matchedBuys[m].trade = r
                   THEN [tradesForFIFO[r] EXCEPT !.quantity =
                            RAdd(@, matchedBuys[CHOOSE m \in 1..Len(matchedBuys) :
                                                    matchedBuys[m].trade = r].quantity)]
                   ELSE tradesForFIFO[r]]
    /\ sellIndex' = sellIndex + 1
    /\ pc' = "fifo_sell"
    /\ UNCHANGED <<run, csvRows, parseError, parsedTrades,
                   tradesForPositions, buyTrades, sellTrades, i, remainingQuantity,
                   matchedBuys, posVars, calculatedTradePairs, calculatedPositions,
                   firstRun, marketVars, appVars, refreshVars>>

\* after the for loop: push the pair of a complete match, leave the callback
fifoEmit ==
    /\ pc = "fifo_scan"
    /\ ~ScanContinues
    /\ pairs' = IF CompleteMatch(remainingQuantity, matchedBuys)
                THEN Append(pairs, MakePair(tradesForFIFO, matchedBuys,
                                            tradesForFIFO[sellTrades[sellIndex]]))
                ELSE pairs
    /\ sellIndex' = sellIndex + 1
    /\ pc' = "fifo_sell"
    /\ UNCHANGED <<run, csvRows, parseError, parsedTrades, tradesForFIFO,
                   tradesForPositions, buyTrades, sellTrades, i, remainingQuantity,
                   matchedBuys, posVars, calculatedTradePairs, calculatedPositions,
                   firstRun, marketVars, appVars, refreshVars>>

\* return pairs
fifoReturn ==
    /\ pc = "fifo_sell"
    /\ sellIndex > Len(sellTrades)
    /\ calculatedTradePairs' = pairs
    /\ pc' = "pos_begin"
    /\ UNCHANGED <<run, csvRows, parseError, parsedTrades, tradesForFIFO,
                   tradesForPositions, fifoVars, posVars, calculatedPositions, firstRun,
                   marketVars, appVars, refreshVars>>

\* a slip: the Map lives outside the function and is never cleared
posBeginKeepingMap ==
    /\ pc = "pos_begin"
    /\ sortedTrades' = SortedRefs(tradesForPositions, Len(tradesForPositions))
    /\ tradeIndex' = 1
    /\ pc' = "pos_step"
    /\ UNCHANGED <<run, csvRows, parseError, parsedTrades, tradesForFIFO,
                   tradesForPositions, fifoVars, positions, calculatedTradePairs,
                   calculatedPositions, firstRun, marketVars, appVars, refreshVars>>

\* calculatePositions(tradesForPositions), up to the sort
posBegin ==
    /\ pc = "pos_begin"
    /\ positions' = <<>>
    /\ sortedTrades' = SortedRefs(tradesForPositions, Len(tradesForPositions))
    /\ tradeIndex' = 1
    /\ pc' = "pos_step"
    /\ UNCHANGED <<run, csvRows, parseError, parsedTrades, tradesForFIFO,
                   tradesForPositions, fifoVars, calculatedTradePairs,
                   calculatedPositions, firstRun, marketVars, appVars, refreshVars>>

\* a slip: the accumulator walks the objects the matcher consumes
CurrentTradeShared == tradesForFIFO[sortedTrades[tradeIndex]]

\* the trade sortedTrades.forEach is about to process
CurrentTrade == tradesForPositions[sortedTrades[tradeIndex]]

\* the Map after the callback of sortedTrades.forEach for a BUY
AfterBuy(ps, trade) ==
    LET qs == WithPosition(ps, trade.symbol)
        k  == PositionIndex(qs, trade.symbol)
    IN  [qs EXCEPT ![k] = ApplyBuy(qs[k], trade)]

\* the Map after the callback of sortedTrades.forEach for a SELL
AfterSell(ps, trade) ==
    LET qs == WithPosition(ps, trade.symbol)
        k  == PositionIndex(qs, trade.symbol)
    IN  [qs EXCEPT ![k] = ApplySell(qs[k], trade)]

posBuy ==
    /\ pc = "pos_step"
    /\ tradeIndex <= Len(sortedTrades)
    /\ CurrentTrade.side = "BUY"
    /\ positions' = AfterBuy(positions, CurrentTrade)
    /\ tradeIndex' = tradeIndex + 1
    /\ UNCHANGED <<pc, run, csvRows, parseError, parsedTrades, tradesForFIFO,
                   tradesForPositions, fifoVars, sortedTrades, calculatedTradePairs,
                   calculatedPositions, firstRun, marketVars, appVars, refreshVars>>

posSell ==
    /\ pc = "pos_step"
    /\ tradeIndex <= Len(sortedTrades)
    /\ CurrentTrade.side = "SELL"
    /\ positions' = AfterSell(positions, CurrentTrade)
    /\ tradeIndex' = tradeIndex + 1
    /\ UNCHANGED <<pc, run, csvRows, parseError, parsedTrades, tradesForFIFO,
                   tradesForPositions, fifoVars, sortedTrades, calculatedTradePairs,
                   calculatedPositions, firstRun, marketVars, appVars, refreshVars>>

\* return finalPositions; handleDataLoaded then calls
\* updatePositionsWithMarketData(calculatedPositions), whose positions.map
\* starts one callback for every position, and awaits their Promise.all
posReturn ==
    /\ pc = "pos_step"
    /\ tradeIndex > Len(sortedTrades)
    /\ calculatedPositions' = FinalPositions(positions)
    /\ updatedPositions' = FinalPositions(positions)
    /\ pending' = 1..Len(FinalPositions(positions))
    /\ pc' = "market"
    /\ UNCHANGED <<run, csvRows, parseError, parsedTrades, tradesForFIFO,
                   tradesForPositions, fifoVars, posVars, calculatedTradePairs, firstRun,
                   feed, priceCache, calculatedSummary, appVars, refreshVars>>

\* the callback of one position runs to its return; updatedPositions[k] is
\* the input position until then.  A rejection would reject the Promise.all
\* and take handleDataLoaded to its catch block.
marketCallback ==
    /\ pc = "market"
    /\ \E k \in pending :
          LET out == MarketCallback(priceCache, calculatedPositions[k],
                                    feed[calculatedPositions[k].symbol])
          IN  /\ Settles(priceCache, calculatedPositions[k].symbol,
                         feed[calculatedPositions[k].symbol])
              /\ priceCache' = out.cache
              /\ pending' = pending \ {k}
              /\ IF out.threw
                 THEN /\ pc' = "failed"
                      /\ parseError' = "Failed to fetch price"
                      /\ UNCHANGED updatedPositions
                 ELSE /\ updatedPositions' = [updatedPositions EXCEPT ![k] = out.position]
                      /\ UNCHANGED <<pc, parseError>>
    /\ UNCHANGED <<run, csvRows, parsedTrades, tradesForFIFO, tradesForPositions,
                   fifoVars, posVars, calculatedTradePairs, calculatedPositions, firstRun,
                   feed, calculatedSummary, appVars, refreshVars>>

\* the Promise.all has resolved: calculatePortfolioSummary and the four
\* setState calls, which React applies together
finishDataLoaded ==
    /\ pc = "market"
    /\ pending = {}
    /\ calculatedSummary' =
          calculatePortfolioSummary(updatedPositions, calculatedTradePairs, parsedTrades)
    /\ appTrades' = parsedTrades
    /\ appPositions' = updatedPositions
    /\ appTradePairs' = calculatedTradePairs
    /\ appSummary' = calculatedSummary'
    /\ pc' = "render"
    /\ UNCHANGED <<run, csvRows, parseError, parsedTrades, tradesForFIFO,
                   tradesForPositions, fifoVars, posVars, calculatedTradePairs,
                   calculatedPositions, firstRun, feed, priceCache, pending,
                   updatedPositions, refreshVars>>

\* App renders with a summary: TradeAnalytics is rendered with the state
\* arrays tradePairs and positions as props.  Of what its body does, only the
\* sort of line 42 writes to a prop.  (calculatedTradePairs keeps what the
\* matcher returned: the local is out of scope by now.)
renderDashboard ==
    /\ pc = "render"
    /\ appSummary # Null
    /\ appTradePairs' = SortBySellDate(appTradePairs, Len(appTradePairs))
    /\ pc' = "shown"
    /\ UNCHANGED <<run, csvRows, parseError, parsedTrades, tradesForFIFO,
                   tradesForPositions, fifoVars, posVars, calculatedTradePairs,
                   calculatedPositions, firstRun, marketVars, appTrades, appPositions,
                   appSummary, refreshVars>>

\* the user clicks Upload New Data, which empties the four states, and, at
\* once or more than five minutes later, loads the same file again:
\* handleDataLoaded runs a second time on the same csvText
uploadAgain ==
    /\ pc = "shown"
    /\ run = 1
    /\ firstRun' = [pairs |-> calculatedTradePairs, positions |-> calculatedPositions]
    /\ run' = 2
    /\ appTrades' = <<>>
    /\ appPositions' = <<>>
    /\ appTradePairs' = <<>>
    /\ appSummary' = Null
    /\ \E late \in BOOLEAN : priceCache' = IF late THEN Expired(priceCache) ELSE priceCache
    /\ pc' = "parse"
    /\ UNCHANGED <<csvRows, parseError, parsedTrades, tradesForFIFO, tradesForPositions,
                   fifoVars, posVars, calculatedTradePairs, calculatedPositions, feed,
                   pending, updatedPositions, calculatedSummary, refreshVars>>

\* no synchronous code of handleDataLoaded is running: it has not started,
\* has ended, or is suspended at the await of its lookups
Idle == pc \in {"parse", "rejected", "market", "failed", "shown", "upload"}

\* the user clicks Refresh Prices (shown with a summary, enabled when no
\* refresh is loading): refreshMarketData runs to its await, with the
\* positions, tradePairs and trades of the render the click came from
refreshMarketData ==
    /\ Idle
    /\ appSummary # Null
    /\ ~isLoadingMarketData
    /\ Len(appPositions) # 0
    /\ isLoadingMarketData' = TRUE
    /\ refreshCall' = [active |-> TRUE, positions |-> appPositions,
                       tradePairs |-> appTradePairs, trades |-> appTrades,
                       pending |-> 1..Len(appPositions),
                       updatedPositions |-> appPositions]
    /\ UNCHANGED <<pc, run, csvRows, parseError, parsedTrades, tradesForFIFO,
                   tradesForPositions, fifoVars, posVars, calculatedTradePairs,
                   calculatedPositions, firstRun, marketVars, appVars>>

\* one callback of the refresh's positions.map runs to its return; a
\* rejection takes refreshMarketData to its catch and finally blocks
refreshCallback ==
    /\ Idle
    /\ refreshCall.active
    /\ \E k \in refreshCall.pending :
          LET out == MarketCallback(priceCache, refreshCall.positions[k],
                                    feed[refreshCall.positions[k].symbol])
          IN  /\ Settles(priceCache, refreshCall.positions[k].symbol,
                         feed[refreshCall.positions[k].symbol])
              /\ priceCache' = out.cache
              /\ IF out.threw
                 THEN /\ refreshCall' = NoRefresh
                      /\ isLoadingMarketData' = FALSE
                 ELSE /\ refreshCall' =
                            [refreshCall EXCEPT !.pending = @ \ {k},
                                                !.updatedPositions[k] = out.position]
                      /\ UNCHANGED isLoadingMarketData
    /\ UNCHANGED <<pc, run, csvRows, parseError, parsedTrades, tradesForFIFO,
                   tradesForPositions, fifoVars, posVars, calculatedTradePairs,
                   calculatedPositions, firstRun, feed, pending, updatedPositions,
                   calculatedSummary, appVars>>

\* the refresh's Promise.all has resolved: setPositions, setSummary and, in
\* the finally block, setIsLoadingMarketData(false)
refreshFinish ==
    /\ Idle
    /\ refreshCall.active
    /\ refreshCall.pending = {}
    /\ appPositions' = refreshCall.updatedPositions
    /\ appSummary' = calculatePortfolioSummary(refreshCall.updatedPositions,
                                               refreshCall.tradePairs, refreshCall.trades)
    /\ isLoadingMarketData' = FALSE
    /\ refreshCall' = NoRefresh
    /\ UNCHANGED <<pc, run, csvRows, parseError, parsedTrades, tradesForFIFO,
                   tradesForPositions, fifoVars, posVars, calculatedTradePairs,
                   calculatedPositions, firstRun, marketVars, appTrades, appTradePairs>>

\* the user clicks Upload New Data and loads no file yet: the four states
\* are emptied and App renders CSVUpload
uploadNewData ==
    /\ pc = "shown"
    /\ appSummary # Null
    /\ appTrades' = <<>>
    /\ appPositions' = <<>>
    /\ appTradePairs' = <<>>
    /\ appSummary' = Null
    /\ pc' = "upload"
    /\ UNCHANGED <<run, csvRows, parseError, parsedTrades, tradesForFIFO,
                   tradesForPositions, fifoVars, posVars, calculatedTradePairs,
                   calculatedPositions, firstRun, marketVars, refreshVars>>

Next ==
    \/ parseCSVData
    \/ copyTrades
    \/ fifoBegin
    \/ fifoSell
    \/ fifoScan
    \/ fifoEmit
    \/ fifoReturn
    \/ posBegin
    \/ posBuy
    \/ posSell
    \/ posReturn
    \/ marketCallback
    \/ finishDataLoaded
    \/ renderDashboard
    \/ uploadAgain

Spec == Init /\ [][Next]_vars

\* parseCSVData alone, on files whose cells range over AnyRows
InitParse ==
    /\ csvRows \in SeqsUpTo(AnyRows, MaxParseRows)
    /\ feed = [s \in Instruments |-> Unreachable]
    /\ Blank

NextParse == parseCSVData

SpecParse == InitParse /\ [][NextParse]_vars

\* rows of the export for one share
UnitRows == {r \in ExportRows : r.Quantity = <<"1">>}

\* short files, and a price service that answers each symbol in any way
InitMarket ==
    /\ csvRows \in SeqsUpTo(UnitRows, MaxMarketRows)
    /\ feed \in [Instruments -> Responses]
    /\ Blank

SpecMarket == InitMarket /\ [][Next]_vars

\* longer files, so that two symbols can each have a matched sell
InitDashboard ==
    /\ csvRows \in SeqsUpTo(UnitRows, MaxDashboardRows)
    /\ feed = [s \in Instruments |-> Unreachable]
    /\ Blank

SpecDashboard == InitDashboard /\ [][Next]_vars

\* short files, and a price service that, for each symbol, cannot be reached
\* or never answers; every continuation that can run does run
InitSilent ==
    /\ csvRows \in SeqsUpTo(UnitRows, MaxSilentRows)
    /\ feed \in [Instruments -> {Unreachable, Silent}]
    /\ Blank

\* what the await of updatePositionsWithMarketData shows of its progress
awaitVars == <<pc, pending>>

\* a continuation of the await runs: a callback whose lookup has settled
\* returns, or the resolved Promise.all resumes handleDataLoaded
awaitResumes ==
    /\ pc = "market"
    /\ \/ pending = {}
       \/ \E k \in pending : Settles(priceCache, calculatedPositions[k].symbol,
                                      feed[calculatedPositions[k].symbol])
    /\ pc' \in {"market", "failed", "render"}
    /\ pending' \in SUBSET pending

\* the event loop runs a continuation that is ready
SpecSilent == InitSilent /\ [][Next]_vars /\ WF_awaitVars(awaitResumes)

\* short files, with the two buttons of the dashboard
InitRefresh ==
    /\ csvRows \in SeqsUpTo(UnitRows, MaxRefreshRows)
    /\ feed = [s \in Instruments |-> Unreachable]
    /\ Blank

NextRefresh ==
    \/ Next
    \/ refreshMarketData
    \/ refreshCallback
    \/ refreshFinish
    \/ uploadNewData

SpecRefresh == InitRefresh /\ [][NextRefresh]_vars

----------------------------------------------------------------------------
(* Reference notions used to state the properties *)

RECURSIVE SumOf(_)
SumOf(xs) == IF xs = <<>> THEN Zero ELSE RAdd(Head(xs), SumOf(Tail(xs)))

SymbolsOf(trades) == {trades[k].symbol : k \in 1..Len(trades)}

\* the BUY records of a symbol, in the order of trades
BuysOf(trades, symbol) ==
    SelectSeq(trades, LAMBDA t : t.side = "BUY" /\ t.symbol = symbol)

\* the quantity bought of a symbol, and what was paid for it
BoughtQuantity(trades, symbol) ==
    LET b == BuysOf(trades, symbol) IN SumOf([k \in 1..Len(b) |-> b[k].quantity])
BoughtAmount(trades, symbol) ==
    LET b == BuysOf(trades, symbol)
    IN  SumOf([k \in 1..Len(b) |-> RMul(b[k].price, b[k].quantity)])

\* Lot bookkeeping by totals: what is left of every symbol's lots after the
\* first k sells of the sequence sells (references into trades), and which of
\* these sells were covered by what was left when their turn came.  A sell
\* that is not covered takes all that is left.
RECURSIVE CoverLedger(_, _, _)
CoverLedger(trades, sells, k) ==
    IF k = 0
    THEN [ left    |-> [s \in SymbolsOf(trades) |-> BoughtQuantity(trades, s)],
           covered |-> <<>> ]
    ELSE LET prev == CoverLedger(trades, sells, k - 1)
             sell == trades[sells[k]]
             left == prev.left[sell.symbol]
         IN  IF RLe(sell.quantity, left)
             THEN [ left    |-> [prev.left EXCEPT ![sell.symbol] = RSub(left, sell.quantity)],
                    covered |-> Append(prev.covered, TRUE) ]
             ELSE [ left    |-> [prev.left EXCEPT ![sell.symbol] = Zero],
                    covered |-> Append(prev.covered, FALSE) ]

\* the ids of the covered sells among the first k, in order
RECURSIVE CoveredIds(_, _, _)
CoveredIds(trades, sells, k) ==
    IF k = 0 THEN <<>>
    ELSE CoveredIds(trades, sells, k - 1) \o
         (IF CoverLedger(trades, sells, k).covered[k] THEN <<trades[sells[k]].id>> ELSE <<>>)

SellIds(ps) == [p \in 1..Len(ps) |-> ps[p].sellTrade.id]

InFIFO == pc \in {"fifo_sell", "fifo_scan"}
AfterFIFO == pc \in {"pos_begin", "pos_step", "market", "render", "shown"}

----------------------------------------------------------------------------
(* Properties *)

\* C1: calculateFIFOPairs leaves its caller's records as they were: when the
\* call has returned, every record of the array that was passed in
\* (tradesForFIFO, made field by field from parsedTrades) has the quantity and
\* the other fields it had before the call, in the same order.
C1_CallerRecordsUntouched ==
    pc = "pos_begin" => tradesForFIFO = CopyTrades(parsedTrades)

\* C2: the second run of the pipeline on the same CSV text computes the same
\* TradePairs and the same Positions as the first.
C2_SecondRunSame ==
    (pc = "market" /\ run = 2) =>
        /\ calculatedTradePairs = firstRun.pairs
        /\ calculatedPositions = firstRun.positions

C2_Witness ==
    /\ pc = "market"
    /\ run = 2
    /\ Len(calculatedTradePairs) > 0
    /\ Len(calculatedPositions) > 0
    /\ Len(calculatedTradePairs) < Len(sellTrades)

\* C3: the pairs pushed so far are, in order, those of the sells processed so
\* far whose quantity was covered by what was left of the BUY lots of their
\* symbol: one pair for each such sell, none for a sell that exceeds what was
\* left; and no step of calculateFIFOPairs reads outside its arrays (nothing
\* throws), whatever the records are.
C3_PairIffCovered ==
    /\ InFIFO => SellIds(pairs) = CoveredIds(parsedTrades, sellTrades, sellIndex - 1)
    /\ pc = "fifo_sell" => sellIndex \in 1..(Len(sellTrades) + 1)
    /\ pc = "fifo_scan" =>
          /\ sellIndex \in 1..Len(sellTrades)
          /\ i \in 1..(Len(buyTrades) + 1)
          /\ \A m \in 1..Len(matchedBuys) : matchedBuys[m].trade \in 1..Len(tradesForFIFO)
    /\ AfterFIFO =>
          SellIds(calculatedTradePairs) = CoveredIds(parsedTrades, sellTrades, Len(sellTrades))

C3_Witness ==
    /\ pc = "pos_begin"
    /\ Len(sellTrades) = 2
    /\ Len(calculatedTradePairs) = 1
    /\ \E k \in 1..2 :
          /\ ~CoverLedger(parsedTrades, sellTrades, 2).covered[k]
          /\ RGt(BoughtQuantity(parsedTrades, parsedTrades[sellTrades[k]].symbol), Zero)

\* C4: every BUY lot matched to a sell has the sell's symbol and a date that
\* is not later than the sell's, and no pair has a negative holdingPeriod.
C4_MatchedLotsArePrior ==
    /\ pc = "fifo_scan" =>
          \A m \in 1..Len(matchedBuys) :
              LET buyTrade  == tradesForFIFO[matchedBuys[m].trade]
                  sellTrade == tradesForFIFO[sellTrades[sellIndex]]
              IN  /\ buyTrade.symbol = sellTrade.symbol
                  /\ parseDate(buyTrade.date) <= parseDate(sellTrade.date)
    /\ \A p \in 1..Len(pairs) : pairs[p].holdingPeriod >= 0

\* C5: for every symbol the cost taken by the pairs (the buy side of a pair
\* carries the consumed quantity at the average price of the consumed lots)
\* is at most what was paid for the symbol's BUY records, and no lot gives
\* more than its original quantity.
PairsCost(ps, symbol) ==
    LET q == SelectSeq(ps, LAMBDA p : p.sellTrade.symbol = symbol)
    IN  SumOf([k \in 1..Len(q) |-> RMul(q[k].buyTrade.price, q[k].buyTrade.quantity)])

C5_CostConserved ==
    (InFIFO \/ AfterFIFO) =>
        /\ \A s \in SymbolsOf(parsedTrades) :
              RLe(PairsCost(pairs, s), BoughtAmount(parsedTrades, s))
        /\ \A k \in 1..Len(parsedTrades) :
              /\ RGe(tradesForFIFO[k].quantity, Zero)
              /\ RLe(tradesForFIFO[k].quantity, parsedTrades[k].quantity)

C5_Witness ==
    /\ pc = "pos_begin"
    /\ \E s \in SymbolsOf(parsedTrades) :
          /\ Len(BuysOf(parsedTrades, s)) = 2
          /\ PairsCost(pairs, s) = BoughtAmount(parsedTrades, s)
          /\ RGt(PairsCost(pairs, s), Zero)

\* what is held of a symbol after the first k trades of the sorted sequence
\* refs, a sell taking no more than is held
RECURSIVE Holdings(_, _, _, _)
Holdings(trades, refs, k, symbol) ==
    IF k = 0 THEN Zero
    ELSE LET h == Holdings(trades, refs, k - 1, symbol)
             t == trades[refs[k]]
         IN  IF t.symbol # symbol THEN h
             ELSE IF t.side = "BUY" THEN RAdd(h, t.quantity)
             ELSE IF RLe(t.quantity, h) THEN RSub(h, t.quantity)
             ELSE Zero

\* the quantity the Map holds for a symbol, 0 when it has no entry
HeldQuantity(ps, symbol) ==
    IF HasSymbol(ps, symbol) THEN ps[PositionIndex(ps, symbol)].quantity ELSE Zero

\* C6: no position's quantity is ever negative; a SELL of q against holdings
\* h leaves max(h - q, 0) and touches no other symbol; a SELL against zero
\* holdings leaves the position (created with zeroes if new) as it was.
C6_SellStep ==
    (pc = "pos_step" /\ tradeIndex' = tradeIndex + 1 /\ CurrentTrade.side = "SELL") =>
        LET s == CurrentTrade.symbol
            q == CurrentTrade.quantity
            h == HeldQuantity(positions, s)
        IN  /\ HeldQuantity(positions', s) = IF RLe(q, h) THEN RSub(h, q) ELSE Zero
            /\ \A o \in SymbolsOf(tradesForPositions) \ {s} :
                  HeldQuantity(positions', o) = HeldQuantity(positions, o)
            /\ h = Zero => positions' = WithPosition(positions, s)

C6_OversellClamped ==
    /\ [](\A k \in 1..Len(positions) : RGe(positions[k].quantity, Zero))
    /\ [][C6_SellStep]_vars

C6_Witness ==
    /\ pc = "pos_step"
    /\ tradeIndex > 2
    /\ LET t == tradesForPositions[sortedTrades[tradeIndex - 1]]
           h == Holdings(tradesForPositions, sortedTrades, tradeIndex - 2, t.symbol)
       IN  /\ t.side = "SELL"
           /\ RGt(h, Zero)
           /\ RGt(t.quantity, h)
           /\ HeldQuantity(positions, t.symbol) = Zero

\* C7: after every BUY or SELL update, and in every returned Position,
\* totalCost = avgBuyPrice * quantity.
C7_CostIsAverageTimesQuantity ==
    /\ \A k \in 1..Len(positions) :
          positions[k].totalCost = RMul(positions[k].avgBuyPrice, positions[k].quantity)
    /\ \A k \in 1..Len(calculatedPositions) :
          calculatedPositions[k].totalCost =
              RMul(calculatedPositions[k].avgBuyPrice, calculatedPositions[k].quantity)

C7_Witness ==
    /\ pc = "market"
    /\ \E k \in 1..Len(calculatedPositions) :
          LET p == calculatedPositions[k]
          IN  /\ \A t \in 1..Len(parsedTrades) : parsedTrades[t].price # p.avgBuyPrice
              /\ \E t \in 1..Len(parsedTrades) :
                    parsedTrades[t].side = "SELL" /\ parsedTrades[t].symbol = p.symbol
              /\ RGt(p.totalCost, Zero)

\* C8: a position whose quantity is 0 (not bought yet, or sold out) has
\* avgBuyPrice 0 and totalCost 0.
C8_ZeroQuantityZeroBasis ==
    \A k \in 1..Len(positions) :
        positions[k].quantity = Zero =>
            positions[k].avgBuyPrice = Zero /\ positions[k].totalCost = Zero

C8_Witness ==
    /\ pc = "pos_step"
    /\ tradeIndex > 1
    /\ LET t == tradesForPositions[sortedTrades[tradeIndex - 1]]
       IN  /\ t.side = "SELL"
           /\ HeldQuantity(positions, t.symbol) = Zero
           /\ RGt(Holdings(tradesForPositions, sortedTrades, tradeIndex - 2, t.symbol), Zero)

\* C9: calculatePositions returns one Position for each symbol of which
\* something is held after all records, and none for any other symbol.
C9_OpenPositionsOnly ==
    pc = "market" =>
        LET held(s) == Holdings(tradesForPositions, sortedTrades, Len(sortedTrades), s)
        IN  /\ {calculatedPositions[k].symbol : k \in 1..Len(calculatedPositions)}
                  = {s \in SymbolsOf(tradesForPositions) : RGt(held(s), Zero)}
            /\ \A j, k \in 1..Len(calculatedPositions) :
                  calculatedPositions[j].symbol = calculatedPositions[k].symbol => j = k
            /\ \A k \in 1..Len(calculatedPositions) :
                  calculatedPositions[k].quantity = held(calculatedPositions[k].symbol)

C9_Witness ==
    /\ pc = "market"
    /\ Len(calculatedPositions) = 1
    /\ Len(positions) = 2
    /\ \E k \in 1..2 :
          /\ positions[k].quantity = Zero
          /\ RGt(BoughtQuantity(tradesForPositions, positions[k].symbol), Zero)

\* C10: parseCSVData rejects exactly when the file has no row or every row is
\* skipped; otherwise it resolves with at least one trade.
RowSkipped(rows, k) == ParseRow(rows[k], k - 1) = <<>>

C10_RejectsIffNothingValid ==
    pc # "parse" =>
        /\ (pc = "rejected") <=>
              (Len(csvRows) = 0 \/ \A k \in 1..Len(csvRows) : RowSkipped(csvRows, k))
        /\ pc = "rejected" => parseError # "" /\ parsedTrades = <<>>
        /\ pc = "copy" => parseError = "" /\ Len(parsedTrades) > 0

C10_Witness ==
    /\ pc = "copy"
    /\ Len(csvRows) = 2
    /\ Len(parsedTrades) = 1
    /\ RowSkipped(csvRows, 1)

\* the id parseCSVData gives to the trade of the k-th row
RowId(rows, k) == rows[k].Instrument \o <<"-">> \o IntToChars(k - 1)

\* the k-th row would be admitted if it were the only row of the file
ValidAlone(row) == ParseRow(row, 0) # <<>>
ValidRows(rows) == {k \in 1..Len(rows) : ValidAlone(rows[k])}
\* the j-th smallest element of a set of row numbers
NthOf(S, j) == CHOOSE k \in S : Cardinality({m \in S : m < k}) = j - 1

CodeOf(row) == IF Truthy(row.TransCode) THEN ToUpperCase(row.TransCode) ELSE <<>>
IsTradeCode(code) == code \in {<<"B", "U", "Y">>, <<"S", "E", "L", "L">>}
BadQuantity(row) == IsNaN(RowQuantity(row)) \/ ~RGt(RowQuantity(row), Zero)
ZeroAmount(row) == RowAmount(row) = Zero
\* the price the row's Amount and Quantity derive: |amount| / quantity for a
\* BUY, amount / quantity for a SELL
DerivedPrice(row) ==
    IF CodeOf(row) = <<"B", "U", "Y">>
    THEN RDiv(RAbs(RowAmount(row)), RowQuantity(row))
    ELSE RDiv(RowAmount(row), RowQuantity(row))
BadRow(row) ==
    \/ ~IsTradeCode(CodeOf(row))
    \/ BadQuantity(row)
    \/ ZeroAmount(row)
    \/ ~RGt(DerivedPrice(row), Zero)

\* C12: every trade parseCSVData resolves with is a BUY or a SELL with
\* quantity > 0 and price > 0, and no trade comes from a row with another
\* transaction code, a quantity that is no positive number, an amount of 0
\* or a derived price that is not positive.
C12_OnlyPositiveBuysAndSells ==
    pc = "copy" =>
        /\ \A j \in 1..Len(parsedTrades) :
              /\ parsedTrades[j].side \in {"BUY", "SELL"}
              /\ RGt(parsedTrades[j].quantity, Zero)
              /\ RGt(parsedTrades[j].price, Zero)
        /\ \A k \in 1..Len(csvRows) :
              BadRow(csvRows[k]) =>
                  \A j \in 1..Len(parsedTrades) : parsedTrades[j].id # RowId(csvRows, k)

C12_Witness ==
    /\ pc = "copy"
    /\ Len(csvRows) = 2
    /\ Len(parsedTrades) = 1
    /\ CodeOf(csvRows[1]) = <<"C", "D", "I", "V">>
    /\ parsedTrades[1].side = "BUY"

\* where a sell stands in sellTrades, and where a trade stands in the file
SellPosition(id) == CHOOSE k \in 1..Len(sellTrades) : tradesForFIFO[sellTrades[k]].id = id
TradePosition(id) == CHOOSE k \in 1..Len(parsedTrades) : parsedTrades[k].id = id

\* C13: the pairs stand in the order in which their sells were processed,
\* which is the order of the sells in the (symbol, date) sorted sequence, and
\* calculateFIFOPairs returns them in that order.
C13_PairsInSellOrder ==
    (InFIFO \/ AfterFIFO) =>
        /\ \A p, q \in 1..Len(pairs) :
              p < q => SellPosition(pairs[p].sellTrade.id) < SellPosition(pairs[q].sellTrade.id)
        /\ \A a, b \in 1..Len(sellTrades) :
              a < b => CompareTrades(tradesForFIFO[sellTrades[a]],
                                     tradesForFIFO[sellTrades[b]]) <= 0
        /\ AfterFIFO => calculatedTradePairs = pairs

C13_Witness ==
    /\ pc = "pos_begin"
    /\ Len(calculatedTradePairs) = 2
    /\ TradePosition(calculatedTradePairs[1].sellTrade.id) >
          TradePosition(calculatedTradePairs[2].sellTrade.id)

\* the lots (BUY records) of a symbol, in the order of buyTrades
LotsOf(symbol) == SelectSeq(buyTrades, LAMBDA r : tradesForFIFO[r].symbol = symbol)

\* C17: at every point of the matching, the lots of a symbol stand oldest
\* first, and a lot has given something only if every lot of its symbol before
\* it has nothing left: the lots used up form a prefix, at most one lot is
\* partly used, the lots behind it are whole.
C17_OldestLotFirst ==
    (InFIFO \/ AfterFIFO) =>
        \A s \in SymbolsOf(parsedTrades) :
            LET lots == LotsOf(s)
            IN  \A a, b \in 1..Len(lots) :
                    a < b =>
                        /\ parseDate(tradesForFIFO[lots[a]].date)
                               <= parseDate(tradesForFIFO[lots[b]].date)
                        /\ tradesForFIFO[lots[b]].quantity # parsedTrades[lots[b]].quantity
                               => tradesForFIFO[lots[a]].quantity = Zero

C17_Witness ==
    /\ pc = "fifo_sell"
    /\ \E s \in SymbolsOf(parsedTrades) :
          /\ Len(LotsOf(s)) = 2
          /\ tradesForFIFO[LotsOf(s)[1]].quantity = Zero
          /\ RGt(tradesForFIFO[LotsOf(s)[2]].quantity, Zero)
          /\ RLt(tradesForFIFO[LotsOf(s)[2]].quantity, parsedTrades[LotsOf(s)[2]].quantity)

\* C18: what is left of a lot is between 0 and the quantity bought and never
\* grows during a matching pass; what is left of the sell being matched is
\* never negative and never grows during its scan.
C18_Bounds ==
    (InFIFO \/ AfterFIFO) =>
        /\ \A k \in 1..Len(tradesForFIFO) :
              /\ RGe(tradesForFIFO[k].quantity, Zero)
              /\ RLe(tradesForFIFO[k].quantity, parsedTrades[k].quantity)
        /\ RGe(remainingQuantity, Zero)

C18_Step ==
    (pc \in {"fifo_sell", "fifo_scan"} /\ pc' \in {"fifo_sell", "fifo_scan", "pos_begin"}) =>
        /\ Len(tradesForFIFO') = Len(tradesForFIFO)
        /\ \A k \in 1..Len(tradesForFIFO) :
              RLe(tradesForFIFO'[k].quantity, tradesForFIFO[k].quantity)
        /\ (pc = "fifo_scan" /\ pc' = "fifo_scan") =>
              RLe(remainingQuantity', remainingQuantity)

C18_RemainingNeverGrows == []C18_Bounds /\ [][C18_Step]_vars

C18_Witness ==
    /\ pc = "fifo_scan"
    /\ remainingQuantity = Zero
    /\ Len(matchedBuys) = 1
    /\ LET k == matchedBuys[1].trade
       IN  /\ RGt(tradesForFIFO[k].quantity, Zero)
           /\ RLt(tradesForFIFO[k].quantity, parsedTrades[k].quantity)

\* the callback of sellTrades.forEach has just pushed a pair: matchedBuys
\* still holds the contributions to it
JustEmitted ==
    pc = "fifo_sell" /\ sellIndex > 1 /\ remainingQuantity = Zero /\ Len(matchedBuys) > 0
LastSell == tradesForFIFO[sellTrades[sellIndex - 1]]
LastPair == pairs[Len(pairs)]
ContributedQuantity ==
    SumOf([m \in 1..Len(matchedBuys) |-> matchedBuys[m].quantity])
\* the cost of the consumed lot quantities, at the prices of the BUY records
ContributedCost ==
    SumOf([m \in 1..Len(matchedBuys) |->
              RMul(parsedTrades[matchedBuys[m].trade].price, matchedBuys[m].quantity)])

\* C19: the contributions to a pair add up to the sell's quantity; the buy
\* side has the sell's quantity and, as price, the cost of the consumed lot
\* quantities divided by that quantity; realizedPnL is (sell price - that
\* price) * sell quantity, which is the proceeds less the cost.
C19_PairIsWeightedAverage ==
    /\ \A p \in 1..Len(pairs) :
          /\ pairs[p].buyTrade.quantity = pairs[p].sellTrade.quantity
          /\ pairs[p].realizedPnL =
                RMul(RSub(pairs[p].sellTrade.price, pairs[p].buyTrade.price),
                     pairs[p].sellTrade.quantity)
    /\ JustEmitted =>
          /\ Len(pairs) > 0
          /\ LastPair.sellTrade = LastSell
          /\ ContributedQuantity = LastSell.quantity
          /\ RMul(LastPair.buyTrade.price, LastSell.quantity) = ContributedCost
          /\ LastPair.realizedPnL =
                RSub(RMul(LastSell.price, LastSell.quantity), ContributedCost)

C19_Witness ==
    /\ JustEmitted
    /\ Len(matchedBuys) = 2
    /\ parsedTrades[matchedBuys[1].trade].price # parsedTrades[matchedBuys[2].trade].price
    /\ LastPair.buyTrade.price # parsedTrades[matchedBuys[1].trade].price

\* C20: holdingPeriod counts the days from the date of the first lot the sell
\* consumed to the sell's date, the buy side carries that lot's date, and no
\* lot that contributed has an earlier date.
C20_HoldingFromFirstLot ==
    JustEmitted =>
        LET first == parsedTrades[matchedBuys[1].trade]
        IN  /\ Len(pairs) > 0
            /\ LastPair.holdingPeriod = parseDate(LastSell.date) - parseDate(first.date)
            /\ LastPair.buyTrade.date = first.date
            /\ LastPair.buyTrade.id = first.id
            /\ \A m \in 1..Len(matchedBuys) :
                  parseDate(first.date) <= parseDate(parsedTrades[matchedBuys[m].trade].date)

C20_Witness ==
    /\ JustEmitted
    /\ Len(matchedBuys) = 2
    /\ parseDate(parsedTrades[matchedBuys[1].trade].date)
          < parseDate(parsedTrades[matchedBuys[2].trade].date)
    /\ LastPair.holdingPeriod > 0

\* the symbols of which something is held after all records
HeldSymbols ==
    {s \in SymbolsOf(tradesForPositions) :
        RGt(Holdings(tradesForPositions, sortedTrades, Len(sortedTrades), s), Zero)}

\* C14: the summary the pipeline stores has positionCount = the number of open
\* positions and tradeCount = the number of records the normalizer emitted,
\* whether or not the matcher found a pair for them.
C14_CountsAllRecords ==
    pc \in {"render", "shown"} =>
        /\ appSummary.positionCount = Len(appPositions)
        /\ appSummary.positionCount = Cardinality(HeldSymbols)
        /\ appSummary.tradeCount = Len(appTrades)
        /\ appSummary.tradeCount = Cardinality(ValidRows(csvRows))

C14_Witness ==
    /\ pc = "shown"
    /\ appSummary.tradeCount = 3
    /\ appSummary.positionCount = 1
    /\ Len(appTradePairs) = 0
    /\ \E k \in 1..Len(appTrades) :
          /\ appTrades[k].side = "SELL"
          /\ RGt(BoughtQuantity(appTrades, appTrades[k].symbol), Zero)
          /\ RGt(appTrades[k].quantity, BoughtQuantity(appTrades, appTrades[k].symbol))

\* the service gives no usable price for a symbol, and the fallback table
\* has none
NoLivePrice(response) ==
    response.kind # "quote" \/ ~NumTruthy(ParseFloat(response.price))
Unavailable(symbol) == NoLivePrice(feed[symbol]) /\ ~HasMockPrice(symbol)

SameHolding(p, q) ==
    /\ p.symbol = q.symbol
    /\ p.quantity = q.quantity
    /\ p.avgBuyPrice = q.avgBuyPrice
    /\ p.totalCost = q.totalCost
ZeroValued(p) ==
    /\ p.currentPrice = Zero
    /\ p.marketValue = Zero
    /\ p.unrealizedPnL = Zero
    /\ p.unrealizedPnLPercent = Zero

\* C15: whatever the price service answers for each symbol, the valuation
\* step does not fail: it yields one position for every input position, with
\* the input's symbol, quantity, avgBuyPrice and totalCost, and with
\* currentPrice, marketValue, unrealizedPnL and unrealizedPnLPercent 0 when
\* no price is available for the symbol.
C15_LookupFailureDegrades ==
    /\ pc # "failed"
    /\ pc = "market" =>
          /\ Len(updatedPositions) = Len(calculatedPositions)
          /\ \A k \in 1..Len(updatedPositions) :
                /\ SameHolding(updatedPositions[k], calculatedPositions[k])
                /\ (k \notin pending /\ Unavailable(updatedPositions[k].symbol))
                      => ZeroValued(updatedPositions[k])
    /\ pc \in {"render", "shown"} =>
          /\ Len(appPositions) = Len(calculatedPositions)
          /\ \A k \in 1..Len(appPositions) :
                /\ SameHolding(appPositions[k], calculatedPositions[k])
                /\ Unavailable(appPositions[k].symbol) => ZeroValued(appPositions[k])

C15_Witness ==
    /\ pc = "shown"
    /\ Len(appPositions) = 2
    /\ \E j, k \in 1..2 :
          /\ feed[appPositions[j].symbol].kind = "notOk"
          /\ Unavailable(appPositions[j].symbol)
          /\ ZeroValued(appPositions[j])
          /\ feed[appPositions[k].symbol].kind = "reject"
          /\ RGt(appPositions[k].currentPrice, Zero)

\* C16: rendering the dashboard leaves the application's tradePairs as the
\* matcher emitted them, content and order, and leaves its positions as they
\* were.
C16_RenderStep ==
    pc = "render" => appTradePairs' = appTradePairs /\ appPositions' = appPositions

C16_RenderLeavesOutputs ==
    /\ [](pc = "shown" => appTradePairs = calculatedTradePairs)
    /\ [][C16_RenderStep]_vars

\* the Map's entry for a symbol, the entry it would be created with if absent
EntryOf(ps, symbol) ==
    IF HasSymbol(ps, symbol) THEN ps[PositionIndex(ps, symbol)] ELSE NewPosition(symbol)

\* the first k trades of the sorted sequence that are of a symbol and a side
DoneOf(k, symbol, side) ==
    SelectSeq(SubSeq(sortedTrades, 1, k),
              LAMBDA r : tradesForPositions[r].symbol = symbol
                         /\ tradesForPositions[r].side = side)

\* C21: a BUY adds price * quantity to the position's totalCost and quantity
\* to its quantity, sets avgBuyPrice to the new totalCost over the new
\* quantity and touches no other symbol; while only BUYs of a symbol have
\* been processed, its totalCost and quantity are the sums over these BUYs.
C21_BuyStep ==
    (pc = "pos_step" /\ tradeIndex' = tradeIndex + 1 /\ CurrentTrade.side = "BUY") =>
        LET s   == CurrentTrade.symbol
            old == EntryOf(positions, s)
            new == EntryOf(positions', s)
        IN  /\ HasSymbol(positions', s)
            /\ new.totalCost =
                  RAdd(old.totalCost, RMul(CurrentTrade.price, CurrentTrade.quantity))
            /\ new.quantity = RAdd(old.quantity, CurrentTrade.quantity)
            /\ new.avgBuyPrice = RDiv(new.totalCost, new.quantity)
            /\ \A o \in SymbolsOf(tradesForPositions) \ {s} :
                  EntryOf(positions', o) = EntryOf(positions, o)

C21_BuysOnly ==
    pc = "pos_step" =>
        \A s \in SymbolsOf(tradesForPositions) :
            LET buys == DoneOf(tradeIndex - 1, s, "BUY")
            IN  (buys # <<>> /\ DoneOf(tradeIndex - 1, s, "SELL") = <<>>) =>
                    /\ EntryOf(positions, s).totalCost =
                          SumOf([k \in 1..Len(buys) |->
                                    RMul(tradesForPositions[buys[k]].price,
                                         tradesForPositions[buys[k]].quantity)])
                    /\ EntryOf(positions, s).quantity =
                          SumOf([k \in 1..Len(buys) |-> tradesForPositions[buys[k]].quantity])

C21_BuyAccumulates == []C21_BuysOnly /\ [][C21_BuyStep]_vars

C21_Witness ==
    /\ pc = "pos_step"
    /\ tradeIndex = 3
    /\ \E s \in SymbolsOf(tradesForPositions) :
          LET buys == DoneOf(2, s, "BUY")
          IN  /\ Len(buys) = 2
              /\ tradesForPositions[buys[1]].price # tradesForPositions[buys[2]].price
              /\ EntryOf(positions, s).avgBuyPrice # tradesForPositions[buys[1]].price
              /\ EntryOf(positions, s).avgBuyPrice # tradesForPositions[buys[2]].price

\* a sequence of references is in the canonical order of its records
Canonical(trades, refs) ==
    \A a, b \in 1..Len(refs) :
        a < b =>
            LET x == trades[refs[a]]
                y == trades[refs[b]]
            IN  /\ LocaleCompare(x.symbol, y.symbol) <= 0
                /\ x.symbol = y.symbol => parseDate(x.date) <= parseDate(y.date)
                /\ (x.symbol = y.symbol /\ parseDate(x.date) = parseDate(y.date))
                      => ~(x.side = "SELL" /\ y.side = "BUY")

\* C22: whatever the order of the rows, calculatePositions processes the
\* records by symbol, then date, then BUY before SELL, and calculateFIFOPairs
\* takes its lots and its sells from the same order.
C22_SameCanonicalOrder ==
    pc = "pos_step" =>
        /\ Canonical(tradesForPositions, sortedTrades)
        /\ {sortedTrades[k] : k \in 1..Len(sortedTrades)} = 1..Len(tradesForPositions)
        /\ Len(sortedTrades) = Len(tradesForPositions)
        /\ buyTrades = RefsOfSide(tradesForPositions, sortedTrades, "BUY")
        /\ sellTrades = RefsOfSide(tradesForPositions, sortedTrades, "SELL")

C22_Witness ==
    /\ pc = "pos_step"
    /\ Len(sortedTrades) = 3
    /\ sortedTrades[1] > sortedTrades[2]
    /\ tradesForPositions[sortedTrades[1]].side = "BUY"
    /\ tradesForPositions[sortedTrades[2]].side = "SELL"
    /\ tradesForPositions[sortedTrades[1]].symbol = tradesForPositions[sortedTrades[2]].symbol
    /\ tradesForPositions[sortedTrades[1]].date = tradesForPositions[sortedTrades[2]].date

\* an Amount cell written between parenthesis-negation markers
Parenthesised(cell) ==
    cell # Undefined /\ Len(cell) > 2 /\ cell[1] = "(" /\ cell[Len(cell)] = ")"
\* the magnitude written between the markers
Magnitude(cell) == ParseFloat(RemoveChars(SubSeq(cell, 2, Len(cell) - 1), {"$", ","}))
\* the row has an instrument, a positive quantity and a date
OtherwiseAdmissible(row) ==
    /\ Truthy(row.Instrument) /\ Trim(row.Instrument) # <<>>
    /\ ~BadQuantity(row)
    /\ Truthy(row.ActivityDate) /\ Trim(row.ActivityDate) # <<>>

\* C23: an Amount written (a) is read as -a: a BUY row with Amount (a) and
\* quantity q is admitted with price a / q, and a SELL row with Amount (a)
\* derives a price that is not positive and yields no trade.
C23_ParenthesisIsNegative ==
    pc = "copy" =>
        \A k \in 1..Len(csvRows) :
            LET row == csvRows[k]
            IN  (OtherwiseAdmissible(row) /\ Parenthesised(row.Amount)
                    /\ RGt(Magnitude(row.Amount), Zero)) =>
                    /\ CodeOf(row) = <<"B", "U", "Y">> =>
                          \E j \in 1..Len(parsedTrades) :
                              /\ parsedTrades[j].id = RowId(csvRows, k)
                              /\ parsedTrades[j].price =
                                    RDiv(Magnitude(row.Amount), RowQuantity(row))
                    /\ CodeOf(row) = <<"S", "E", "L", "L">> =>
                          \A j \in 1..Len(parsedTrades) :
                              parsedTrades[j].id # RowId(csvRows, k)

\* calculatePositions as a function of its argument: the Map after the first
\* k trades of the sorted sequence refs
RECURSIVE PositionsAfter(_, _, _)
PositionsAfter(trades, refs, k) ==
    IF k = 0 THEN <<>>
    ELSE LET ps == PositionsAfter(trades, refs, k - 1)
             t  == trades[refs[k]]
         IN  IF t.side = "BUY" THEN AfterBuy(ps, t)
             ELSE IF t.side = "SELL" THEN AfterSell(ps, t)
             ELSE ps

\* what calculatePositions returns for an array of records
PositionsOf(trades) ==
    FinalPositions(PositionsAfter(trades, SortedRefs(trades, Len(trades)), Len(trades)))

\* C24: the matcher's lot consumption is not visible to the rest of the
\* pipeline: the records calculatePositions receives, the positions it
\* returns, the records calculatePortfolioSummary receives and the trades the
\* application stores are what they are for the parsed batch as parsed.
C24_ConsumptionNotVisible ==
    /\ pc \in {"pos_begin", "pos_step"} => tradesForPositions = CopyTrades(parsedTrades)
    /\ AfterFIFO => parsedTrades = ParseOutcome(csvRows).trades
    /\ pc = "market" => calculatedPositions = PositionsOf(ParseOutcome(csvRows).trades)
    /\ pc = "render" =>
          /\ appTrades = ParseOutcome(csvRows).trades
          /\ appSummary = calculatePortfolioSummary(updatedPositions, calculatedTradePairs,
                                                    ParseOutcome(csvRows).trades)

C24_Witness ==
    /\ pc = "render"
    /\ \E k \in 1..Len(tradesForFIFO) :
          /\ tradesForFIFO[k].side = "BUY"
          /\ RLt(tradesForFIFO[k].quantity, appTrades[k].quantity)
          /\ RGt(tradesForFIFO[k].quantity, Zero)
    /\ Len(appPositions) > 0

\* the k-th sell has been processed and no pair was pushed for it
Dropped(k) ==
    /\ k < sellIndex
    /\ \A p \in 1..Len(pairs) : pairs[p].sellTrade.id # tradesForFIFO[sellTrades[k]].id

\* C26: once a sell of a symbol has been dropped as an incomplete match,
\* every BUY lot of the symbol has quantity 0, whatever its date, and every
\* sell of the symbol processed after it is dropped too.
C26_DroppedSellConsumes ==
    pc = "fifo_sell" =>
        \A k \in 1..Len(sellTrades) :
            Dropped(k) =>
                LET s == tradesForFIFO[sellTrades[k]].symbol
                IN  /\ \A b \in 1..Len(buyTrades) :
                          tradesForFIFO[buyTrades[b]].symbol = s
                              => tradesForFIFO[buyTrades[b]].quantity = Zero
                    /\ \A m \in (k + 1)..(sellIndex - 1) :
                          tradesForFIFO[sellTrades[m]].symbol = s => Dropped(m)

C26_Witness ==
    /\ pc = "fifo_sell"
    /\ sellIndex = 3
    /\ Len(buyTrades) = 1
    /\ Dropped(1)
    /\ Dropped(2)
    /\ tradesForFIFO[sellTrades[1]].symbol = tradesForFIFO[buyTrades[1]].symbol
    /\ tradesForFIFO[sellTrades[2]].symbol = tradesForFIFO[buyTrades[1]].symbol
    /\ RGt(parsedTrades[buyTrades[1]].quantity, Zero)
    /\ RLe(tradesForFIFO[sellTrades[2]].quantity, parsedTrades[buyTrades[1]].quantity)
    /\ parseDate(parsedTrades[buyTrades[1]].date)
          > parseDate(tradesForFIFO[sellTrades[1]].date)

\* what is left of a symbol's BUY lots in the matcher's records
RemainingLots(symbol) ==
    LET lots == LotsOf(symbol)
    IN  SumOf([k \in 1..Len(lots) |-> tradesForFIFO[lots[k]].quantity])

\* C27: for every symbol, the quantity of the position calculatePositions
\* returns (0 when the symbol has none) is the sum of the quantities left in
\* the symbol's BUY lots after calculateFIFOPairs.
C27_OpenQuantitiesAgree ==
    pc = "market" =>
        \A s \in SymbolsOf(parsedTrades) :
            HeldQuantity(calculatedPositions, s) = RemainingLots(s)

\* the one-to-one maps of 1..n onto itself
Perms(n) == {f \in [1..n -> 1..n] : \A a, b \in 1..n : f[a] = f[b] => a = b}

C25_LookupsComplete == (pc = "market") ~> (pc = "render")

\* C28: after Upload New Data, and until a file is loaded, summary is null
\* and positions is empty, whatever refresh was under way at the click.
C28_ResetSticks ==
    pc = "upload" => (appSummary = Null /\ appPositions = <<>>)

=============================================================================
